---- MODULE Spec2Model ----
(***************************************************************************)
(* Model of the markdown validation, import-generation and import scripts. *)
(*                                                                         *)
(* Text is a sequence of one-character strings, so that indexOf, split,    *)
(* trim and startsWith are computed character by character as the          *)
(* JavaScript string methods compute them.  The summary strings pushed to  *)
(* issues and warnings are TLA+ strings built with ToString.               *)
(***************************************************************************)
EXTENDS Integers, Sequences, FiniteSets, TLC

(***************************************************************************)
(* Bounds of the model.                                                    *)
(***************************************************************************)
\* number of blocks (headings, paragraphs, images, lists ...) of a document
MaxBlocks == 2

\* number of characters of a text served to generate.js
MaxTextLen == 4

\* number of lines of a .env file
MaxEnvLines == 2

\* number of lines of more than 120 characters in a paragraph
MaxLongLines == 11

(***************************************************************************)
(* JavaScript string and array primitives.                                 *)
(***************************************************************************)
SetMin(S) == CHOOSE x \in S : \A y \in S : x <= y

SetMax(S) == CHOOSE x \in S : \A y \in S : x >= y

\* the value of a property that is not there
undefined == <<"undefined">>

\* the characters String.prototype.trim removes and \s matches
IsWhitespace(c) == c \in {" ", "\n", "\t"}

\* JavaScript truthiness of a string-or-undefined value
Truthy(v) == v # undefined /\ v # <<>>

\* v || d
OrElse(v, d) == IF Truthy(v) THEN v ELSE d

\* s.trim()
trim(s) ==
  LET keep == {i \in 1..Len(s) : ~IsWhitespace(s[i])}
  IN  IF keep = {} THEN <<>> ELSE SubSeq(s, SetMin(keep), SetMax(keep))

\* s.indexOf(t, from): 0-based position of the first occurrence, -1 if none
indexOf(s, t, from) ==
  LET hits == {i \in from..(Len(s) - Len(t)) : SubSeq(s, i + 1, i + Len(t)) = t}
  IN  IF hits = {} THEN -1 ELSE SetMin(hits)

\* s.substring(a, b), 0-based, b exclusive
substring(s, a, b) == SubSeq(s, a + 1, b)

\* s.startsWith(p)
startsWith(s, p) == Len(s) >= Len(p) /\ SubSeq(s, 1, Len(p)) = p

\* s.split(sep) for a one-character separator
RECURSIVE split(_, _)
split(s, sep) ==
  LET at == {i \in 1..Len(s) : s[i] = sep}
  IN  IF at = {} THEN <<s>>
      ELSE LET i == SetMin(at)
           IN  <<SubSeq(s, 1, i - 1)>> \o split(SubSeq(s, i + 1, Len(s)), sep)

\* concatenation of a sequence of sequences
RECURSIVE Flatten(_)
Flatten(ss) == IF ss = <<>> THEN <<>> ELSE Head(ss) \o Flatten(Tail(ss))

(***************************************************************************)
(* Literal text used by the scripts.                                       *)
(***************************************************************************)
NoText == <<"(", "n", "o", " ", "t", "e", "x", "t", ")">>

NoAltText == <<"(", "n", "o", " ", "a", "l", "t", " ", "t", "e", "x", "t", ")">>

NoUrl == <<"(", "n", "o", " ", "U", "R", "L", ")">>

HttpPrefix == <<"h", "t", "t", "p", ":", "/", "/">>

HttpsPrefix == <<"h", "t", "t", "p", "s", ":", "/", "/">>

LongLineLength == 120

LongLineCount == 10

(***************************************************************************)
(* findLineNumber                                                          *)
(***************************************************************************)
\* the null returned when the text is not found
null == [found |-> FALSE, lineNumber |-> 0, index |-> -1]

\* findLineNumber that counts the lines from zero
findLineNumber_ZeroBased(markdown, searchText) ==
  LET index == indexOf(markdown, searchText, 0)
  IN  IF index = -1 THEN null
      ELSE LET beforeText == substring(markdown, 0, index)
           IN  [found |-> TRUE,
                lineNumber |-> Len(split(beforeText, "\n")) - 1,
                index |-> index]

findLineNumber(markdown, searchText) ==
  LET index == indexOf(markdown, searchText, 0)
  IN  IF index = -1 THEN null
      ELSE LET beforeText == substring(markdown, 0, index)
           IN  [found |-> TRUE,
                lineNumber |-> Len(split(beforeText, "\n")),
                index |-> index]

\* the "Unknown" that stands in the line column for an unresolved location
Unknown == [known |-> FALSE, n |-> 0]

\* location ? location.lineNumber : "Unknown"
LineOf(location) ==
  IF location.found THEN [known |-> TRUE, n |-> location.lineNumber] ELSE Unknown

(***************************************************************************)
(* Documents and the token forest marked.lexer returns for them.           *)
(*                                                                         *)
(* A document is a sequence of blocks separated by a blank line.  Every    *)
(* token carries, in the field line, the source line its markdown starts   *)
(* on; that field is bookkeeping of the model, which validateMarkdown      *)
(* never reads.  Children of a token are in tokens, except for a list,     *)
(* whose list_item children are in items.                                  *)
(***************************************************************************)
Tok(type, depth, text, href, tokens, items, line) ==
  [type |-> type, depth |-> depth, text |-> text, href |-> href,
   tokens |-> tokens, items |-> items, line |-> line]

\* the forms of a link or image destination: markdown source and parsed href
FormRaw(form) ==
  CASE form = "empty" -> <<"(", ")">>
    [] form = "space" -> <<"(", " ", ")">>
    [] form = "angle" -> <<"(", "<", " ", ">", ")">>
    [] form = "rel"   -> <<"(", "u", ")">>
    [] form = "http"  -> <<"(">> \o HttpPrefix \o <<"x", ")">>
    [] form = "https" -> <<"(">> \o HttpsPrefix \o <<"x", ")">>
    [] form = "inner" -> <<"(", "x">> \o HttpPrefix \o <<"x", ")">>

FormHref(form) ==
  CASE form = "empty" -> <<>>
    [] form = "space" -> <<>>
    [] form = "angle" -> <<" ">>
    [] form = "rel"   -> <<"u">>
    [] form = "http"  -> HttpPrefix \o <<"x">>
    [] form = "https" -> HttpsPrefix \o <<"x">>
    [] form = "inner" -> <<"x">> \o HttpPrefix \o <<"x">>

Block(kind, depth, text, form) ==
  [kind |-> kind, depth |-> depth, text |-> text, form |-> form]

\* the blocks documents are made of
Blocks ==
  { Block("heading", 1, <<"A">>, "none"),
    Block("heading", 1, <<"B">>, "none"),
    Block("heading", 2, <<"A">>, "none"),
    Block("setext", 1, <<"A">>, "none"),
    Block("text", 0, <<"A">>, "none"),
    Block("link", 0, <<"A">>, "empty"),
    Block("link", 0, <<"A">>, "space"),
    Block("link", 0, <<"A">>, "rel"),
    Block("link", 0, <<"B">>, "empty"),
    Block("quotelink", 0, <<"A">>, "empty"),
    Block("listlink", 0, <<"A">>, "empty"),
    Block("image", 0, <<"A">>, "empty"),
    Block("image", 0, <<"A">>, "angle"),
    Block("image", 0, <<"A">>, "http"),
    Block("image", 0, <<>>, "rel"),
    Block("image", 0, <<>>, "empty"),
    Block("pimage", 0, <<"A">>, "empty") }

LinkRaw(b) == <<"[">> \o b.text \o <<"]">> \o FormRaw(b.form)

ImageRaw(b) == <<"!", "[">> \o b.text \o <<"]">> \o FormRaw(b.form)

\* the markdown source of a block
BlockRaw(b) ==
  CASE b.kind = "heading"   -> [i \in 1..b.depth |-> "#"] \o <<" ">> \o b.text
    [] b.kind = "setext"    -> b.text \o <<"\n", "=">>
    [] b.kind = "text"      -> b.text
    [] b.kind = "link"      -> LinkRaw(b)
    [] b.kind = "quotelink" -> <<">", " ">> \o LinkRaw(b)
    [] b.kind = "listlink"  -> <<"-", " ">> \o LinkRaw(b)
    [] b.kind = "image"     -> ImageRaw(b)
    [] b.kind = "pimage"    -> ImageRaw(b)
    [] b.kind = "fence"     -> <<"~", "~", "~", "\n">> \o b.text \o <<"\n", "~", "~", "~">>
    [] b.kind = "quoteimage" -> <<">", " ">> \o ImageRaw(b)
    [] b.kind = "listimage" -> <<"-", " ">> \o ImageRaw(b)

LinkTok(b, line) ==
  Tok("link", 0, b.text, FormHref(b.form),
      <<Tok("text", 0, b.text, undefined, <<>>, <<>>, line)>>, <<>>, line)

ImageTok(b, line) == Tok("image", 0, b.text, FormHref(b.form), <<>>, <<>>, line)

\* the token marked.lexer makes of a block that starts on the given line
BlockToken(b, line) ==
  CASE b.kind = "heading" ->
         Tok("heading", b.depth, b.text, undefined,
             <<Tok("text", 0, b.text, undefined, <<>>, <<>>, line)>>, <<>>, line)
    [] b.kind = "setext" ->
         Tok("heading", 1, b.text, undefined,
             <<Tok("text", 0, b.text, undefined, <<>>, <<>>, line)>>, <<>>, line)
    [] b.kind = "text" ->
         Tok("paragraph", 0, b.text, undefined,
             <<Tok("text", 0, b.text, undefined, <<>>, <<>>, line)>>, <<>>, line)
    [] b.kind = "link" ->
         Tok("paragraph", 0, LinkRaw(b), undefined, <<LinkTok(b, line)>>, <<>>, line)
    [] b.kind = "quotelink" ->
         Tok("blockquote", 0, LinkRaw(b), undefined,
             <<Tok("paragraph", 0, LinkRaw(b), undefined,
                   <<LinkTok(b, line)>>, <<>>, line)>>, <<>>, line)
    [] b.kind = "listlink" ->
         Tok("list", 0, undefined, undefined, <<>>,
             <<Tok("list_item", 0, LinkRaw(b), undefined,
                   <<Tok("text", 0, LinkRaw(b), undefined,
                         <<LinkTok(b, line)>>, <<>>, line)>>, <<>>, line)>>, line)
    [] b.kind = "image" -> ImageTok(b, line)
    [] b.kind = "pimage" ->
         Tok("paragraph", 0, ImageRaw(b), undefined, <<ImageTok(b, line)>>, <<>>, line)
    [] b.kind = "fence" -> Tok("code", 0, b.text, undefined, <<>>, <<>>, line)
    [] b.kind = "quoteimage" ->
         Tok("blockquote", 0, ImageRaw(b), undefined,
             <<Tok("paragraph", 0, ImageRaw(b), undefined,
                   <<ImageTok(b, line)>>, <<>>, line)>>, <<>>, line)
    [] b.kind = "listimage" ->
         Tok("list", 0, undefined, undefined, <<>>,
             <<Tok("list_item", 0, ImageRaw(b), undefined,
                   <<Tok("text", 0, ImageRaw(b), undefined,
                         <<ImageTok(b, line)>>, <<>>, line)>>, <<>>, line)>>, line)

\* the documents a URL may serve
Docs == UNION {[1..n -> Blocks] : n \in 0..MaxBlocks}

\* number of source lines of a block
BlockLines(b) == Len(split(BlockRaw(b), "\n"))

\* the line the i-th block of a document starts on
RECURSIVE StartLine(_, _)
StartLine(doc, i) ==
  IF i = 1 THEN 1 ELSE StartLine(doc, i - 1) + BlockLines(doc[i - 1]) + 1

\* the text of a document: its blocks joined by a blank line
Render(doc) ==
  Flatten([i \in 1..Len(doc) |->
             IF i = 1 THEN BlockRaw(doc[i]) ELSE <<"\n", "\n">> \o BlockRaw(doc[i])])

\* marked.lexer(md) for md = Render(doc), when it does not throw
lexer(doc) == [i \in 1..Len(doc) |-> BlockToken(doc[i], StartLine(doc, i))]

(***************************************************************************)
(* validateMarkdown of generate-import-file.js.                            *)
(*                                                                         *)
(* lexed is the outcome of marked.lexer(md): threw, or the token forest.   *)
(***************************************************************************)
\* tokenList.filter((t) => t.type === type)
OfType(tokenList, type) == SelectSeq(tokenList, LAMBDA t : t.type = type)

\* the links pushed by extractLinks(tokenList), in the order pushed
RECURSIVE extractLinks(_)
extractLinks(tokenList) ==
  Flatten([i \in 1..Len(tokenList) |->
             (IF tokenList[i].type = "link" THEN <<tokenList[i]>> ELSE <<>>)
             \o (IF tokenList[i].tokens # <<>>
                 THEN extractLinks(tokenList[i].tokens) ELSE <<>>)])

\* HrefMissing without the trim
HrefMissing_NoTrim(x) == ~Truthy(x.href)

\* !x.href || x.href.trim() === ""
HrefMissing(x) == ~Truthy(x.href) \/ trim(x.href) = <<>>

\* !img.text || img.text.trim() === ""
AltMissing(img) == ~Truthy(img.text) \/ trim(img.text) = <<>>

\* IsExternal that knows http:// only
IsExternal_HttpOnly(img) == Truthy(img.href) /\ startsWith(img.href, HttpPrefix)

\* img.href && (img.href.startsWith("http://") || img.href.startsWith("https://"))
IsExternal(img) ==
  Truthy(img.href)
  /\ (startsWith(img.href, HttpPrefix) \/ startsWith(img.href, HttpsPrefix))

\* the entry pushed for one depth-1 heading when there are several
H1Error(md, h1, h1Count) ==
  LET h1Text == OrElse(h1.text, NoText)
      searchPattern == <<"#", " ">> \o h1Text
      location == findLineNumber(md, searchPattern)
  IN  [type |-> "Warning",
       category |-> "Multiple H1",
       line |-> LineOf(location),
       element |-> <<"#", " ">> \o h1Text,
       description |-> "Multiple H1 headings found (SEO concern)",
       heading |-> h1Text,
       count |-> h1Count]

\* the entry pushed for one broken image
BrokenImageError(md, img) ==
  LET altText == OrElse(img.text, NoAltText)
      searchPattern == <<"!", "[">> \o OrElse(img.text, <<>>) \o <<"]", "(", ")">>
      location == findLineNumber(md, searchPattern)
  IN  [type |-> "Critical",
       category |-> "Broken Image",
       line |-> LineOf(location),
       element |-> <<"!", "[">> \o altText \o <<"]", "(", ")">>,
       description |-> "Image has empty URL",
       altText |-> altText,
       href |-> <<"(", "e", "m", "p", "t", "y", ")">>]

\* the entry pushed for one image without alt text
NoAltError(md, img) ==
  LET searchPattern == <<"!", "[", "]", "(">> \o OrElse(img.href, <<>>) \o <<")">>
      location == findLineNumber(md, searchPattern)
  IN  [type |-> "Warning",
       category |-> "Missing Alt Text",
       line |-> LineOf(location),
       element |-> <<"!", "[", "]", "(">> \o OrElse(img.href, <<>>) \o <<")">>,
       description |-> "Image is missing alt text (accessibility issue)",
       altText |-> <<"(", "m", "i", "s", "s", "i", "n", "g", ")">>,
       href |-> OrElse(img.href, NoUrl)]

\* BrokenLinkError that looks for the form with a space first
BrokenLinkError_SpaceFirst(md, link) ==
  LET linkText == OrElse(link.text, NoText)
      first == findLineNumber(md, <<"[">> \o linkText \o <<"]", "(", " ", ")">>)
      location == IF ~first.found
                  THEN findLineNumber(md, <<"[">> \o linkText \o <<"]", "(", ")">>)
                  ELSE first
  IN  [type |-> "Critical",
       category |-> "Broken Link",
       line |-> LineOf(location),
       element |-> <<"[">> \o linkText \o <<"]", "(", ")">>,
       description |-> "Link has empty URL",
       linkText |-> linkText,
       href |-> <<"(", "e", "m", "p", "t", "y", ")">>]

\* the entry pushed for one broken link
BrokenLinkError(md, link) ==
  LET linkText == OrElse(link.text, NoText)
      first == findLineNumber(md, <<"[">> \o linkText \o <<"]", "(", ")">>)
      location == IF ~first.found
                  THEN findLineNumber(md, <<"[">> \o linkText \o <<"]", "(", " ", ")">>)
                  ELSE first
  IN  [type |-> "Critical",
       category |-> "Broken Link",
       line |-> LineOf(location),
       element |-> <<"[">> \o linkText \o <<"]", "(", ")">>,
       description |-> "Link has empty URL",
       linkText |-> linkText,
       href |-> <<"(", "e", "m", "p", "t", "y", ")">>]

\* HeadingRule with the h1Count === 0 branch lost
HeadingRule_NoIssue(md, h1Headings) ==
  LET h1Count == Len(h1Headings)
  IN  IF h1Count > 1
      THEN [issues |-> <<>>,
            warnings |->
              <<"Multiple H1 headings found (" \o ToString(h1Count) \o ")">>,
            detailedErrors |->
              [i \in 1..Len(h1Headings) |-> H1Error(md, h1Headings[i], h1Count)]]
      ELSE [issues |-> <<>>, warnings |-> <<>>, detailedErrors |-> <<>>]

\* HeadingRule that records only the first of the depth-1 headings
HeadingRule_FirstOnly(md, h1Headings) ==
  LET h1Count == Len(h1Headings)
  IN  IF h1Count = 0
      THEN [issues |-> <<"No H1 heading found">>, warnings |-> <<>>,
            detailedErrors |-> <<>>]
      ELSE IF h1Count > 1
      THEN [issues |-> <<>>,
            warnings |->
              <<"Multiple H1 headings found (" \o ToString(h1Count) \o ")">>,
            detailedErrors |-> <<H1Error(md, h1Headings[1], h1Count)>>]
      ELSE [issues |-> <<>>, warnings |-> <<>>, detailedErrors |-> <<>>]

\* the heading rule: what it appends to issues, warnings and detailedErrors
HeadingRule(md, h1Headings) ==
  LET h1Count == Len(h1Headings)
  IN  IF h1Count = 0
      THEN [issues |-> <<"No H1 heading found">>, warnings |-> <<>>,
            detailedErrors |-> <<>>]
      ELSE IF h1Count > 1
      THEN [issues |-> <<>>,
            warnings |->
              <<"Multiple H1 headings found (" \o ToString(h1Count) \o ")">>,
            detailedErrors |->
              [i \in 1..Len(h1Headings) |-> H1Error(md, h1Headings[i], h1Count)]]
      ELSE [issues |-> <<>>, warnings |-> <<>>, detailedErrors |-> <<>>]

\* BrokenImageRule that records an image only when its location is found
BrokenImageRule_SkipUnlocated(md, images) ==
  LET brokenImages == SelectSeq(images, HrefMissing)
  IN  IF Len(brokenImages) > 0
      THEN [issues |->
              <<ToString(Len(brokenImages)) \o " image(s) with missing URLs">>,
            warnings |-> <<>>,
            detailedErrors |->
              SelectSeq([i \in 1..Len(brokenImages) |->
                           BrokenImageError(md, brokenImages[i])],
                        LAMBDA e : e.line.known)]
      ELSE [issues |-> <<>>, warnings |-> <<>>, detailedErrors |-> <<>>]

\* the broken-image rule
BrokenImageRule(md, images) ==
  LET brokenImages == SelectSeq(images, HrefMissing)
  IN  IF Len(brokenImages) > 0
      THEN [issues |->
              <<ToString(Len(brokenImages)) \o " image(s) with missing URLs">>,
            warnings |-> <<>>,
            detailedErrors |->
              [i \in 1..Len(brokenImages) |-> BrokenImageError(md, brokenImages[i])]]
      ELSE [issues |-> <<>>, warnings |-> <<>>, detailedErrors |-> <<>>]

\* MissingAltRule that passes over the images the broken-image rule reported
MissingAltRule_SkipBroken(md, images) ==
  LET imagesNoAlt == SelectSeq(images, LAMBDA i : AltMissing(i) /\ ~HrefMissing(i))
  IN  IF Len(imagesNoAlt) > 0
      THEN [issues |-> <<>>,
            warnings |->
              <<ToString(Len(imagesNoAlt)) \o " image(s) missing alt text">>,
            detailedErrors |->
              [i \in 1..Len(imagesNoAlt) |-> NoAltError(md, imagesNoAlt[i])]]
      ELSE [issues |-> <<>>, warnings |-> <<>>, detailedErrors |-> <<>>]

\* the missing-alt-text rule
MissingAltRule(md, images) ==
  LET imagesNoAlt == SelectSeq(images, AltMissing)
  IN  IF Len(imagesNoAlt) > 0
      THEN [issues |-> <<>>,
            warnings |->
              <<ToString(Len(imagesNoAlt)) \o " image(s) missing alt text">>,
            detailedErrors |->
              [i \in 1..Len(imagesNoAlt) |-> NoAltError(md, imagesNoAlt[i])]]
      ELSE [issues |-> <<>>, warnings |-> <<>>, detailedErrors |-> <<>>]

\* the broken-link rule
BrokenLinkRule(md, links) ==
  LET brokenLinks == SelectSeq(links, HrefMissing)
  IN  IF Len(brokenLinks) > 0
      THEN [issues |->
              <<ToString(Len(brokenLinks)) \o " link(s) with missing URLs">>,
            warnings |-> <<>>,
            detailedErrors |->
              [i \in 1..Len(brokenLinks) |-> BrokenLinkError(md, brokenLinks[i])]]
      ELSE [issues |-> <<>>, warnings |-> <<>>, detailedErrors |-> <<>>]

\* the external-image check
ExternalImageRule(images) ==
  LET externalImages == SelectSeq(images, IsExternal)
  IN  IF Len(externalImages) > 0
      THEN [issues |-> <<>>,
            warnings |->
              <<ToString(Len(externalImages))
                  \o " external image(s) - consider hosting in Contentful">>,
            detailedErrors |-> <<>>]
      ELSE [issues |-> <<>>, warnings |-> <<>>, detailedErrors |-> <<>>]

\* LongLineRule that counts the lines of 120 characters too
LongLineRule_Inclusive(md) ==
  LET longLines == SelectSeq(split(md, "\n"), LAMBDA l : Len(l) >= LongLineLength)
  IN  IF Len(longLines) > LongLineCount
      THEN [issues |-> <<>>,
            warnings |->
              <<ToString(Len(longLines)) \o " lines exceed 120 characters">>,
            detailedErrors |-> <<>>]
      ELSE [issues |-> <<>>, warnings |-> <<>>, detailedErrors |-> <<>>]

\* the long-line check
LongLineRule(md) ==
  LET longLines == SelectSeq(split(md, "\n"), LAMBDA l : Len(l) > LongLineLength)
  IN  IF Len(longLines) > LongLineCount
      THEN [issues |-> <<>>,
            warnings |->
              <<ToString(Len(longLines)) \o " lines exceed 120 characters">>,
            detailedErrors |-> <<>>]
      ELSE [issues |-> <<>>, warnings |-> <<>>, detailedErrors |-> <<>>]

\* the return value of the catch branch of the parse step
ParseFailure ==
  [success |-> FALSE,
   issues |-> <<"Failed to parse markdown - syntax errors present">>,
   warnings |-> <<>>,
   tokens |-> <<>>]

\* RulesOf with the link rule run before the image rules
RulesOf_LinksFirst(md, tokens) ==
  LET headings == OfType(tokens, "heading")
      images == OfType(tokens, "image")
      links == extractLinks(tokens)
      h1Headings == SelectSeq(headings, LAMBDA h : h.depth = 1)
  IN  << HeadingRule(md, h1Headings),
         BrokenLinkRule(md, links),
         BrokenImageRule(md, images),
         MissingAltRule(md, images),
         ExternalImageRule(images),
         LongLineRule(md) >>

\* the rules in the order they run
RulesOf(md, tokens) ==
  LET headings == OfType(tokens, "heading")
      images == OfType(tokens, "image")
      links == extractLinks(tokens)
      h1Headings == SelectSeq(headings, LAMBDA h : h.depth = 1)
  IN  << HeadingRule(md, h1Headings),
         BrokenImageRule(md, images),
         MissingAltRule(md, images),
         BrokenLinkRule(md, links),
         ExternalImageRule(images),
         LongLineRule(md) >>

validateMarkdown(md, title, lexed) ==
  IF lexed.threw THEN ParseFailure
  ELSE
  LET tokens == lexed.tokens
      rules == RulesOf(md, tokens)
      issues == Flatten([i \in 1..Len(rules) |-> rules[i].issues])
      warnings == Flatten([i \in 1..Len(rules) |-> rules[i].warnings])
      detailedErrors == Flatten([i \in 1..Len(rules) |-> rules[i].detailedErrors])
  IN  [success |-> Len(issues) = 0,
       issues |-> issues,
       warnings |-> warnings,
       tokens |-> tokens,
       detailedErrors |-> detailedErrors]

(***************************************************************************)
(* exportErrorsToCSV.  A literal word of the script ("Critical", a         *)
(* category, a description, a decimal number) is one element of the text   *)
(* it is written into; none of them holds a comma, a quote or a newline.   *)
(***************************************************************************)
headers ==
  << <<"Type">>, <<"Category">>, <<"Line">>, <<"Element">>, <<"Description">>,
     <<"Additional Info">> >>

\* arr.join(sep) for a sequence of texts
RECURSIVE join(_, _)
join(arr, sep) ==
  IF arr = <<>> THEN <<>>
  ELSE IF Len(arr) = 1 THEN arr[1]
  ELSE arr[1] \o sep \o join(Tail(arr), sep)

\* the additionalInfo computed for a row
additionalInfo(error) ==
  CASE error.category = "Broken Image" ->
         <<"Alt: ", "\"">> \o error.altText \o <<"\"">>
    [] error.category = "Broken Link" ->
         <<"Text: ", "\"">> \o error.linkText \o <<"\"">>
    [] error.category = "Missing Alt Text" ->
         <<"URL: ", "\"">> \o error.href \o <<"\"">>
    [] error.category = "Multiple H1" ->
         <<"Total H1s: ", ToString(error.count)>>
    [] OTHER -> <<>>

\* String(error.line)
LineText(line) == IF line.known THEN <<ToString(line.n)>> ELSE <<"Unknown">>

\* escapeCSV that wraps the field but leaves its quotes single
escapeCSV_NoDoubling(value) ==
  IF value = undefined THEN <<>>
  ELSE IF \E i \in 1..Len(value) : value[i] \in {"\"", ",", "\n"}
  THEN <<"\"">> \o value \o <<"\"">>
  ELSE value

escapeCSV(value) ==
  IF value = undefined THEN <<>>
  ELSE LET str == value
       IN  IF \E i \in 1..Len(str) : str[i] \in {"\"", ",", "\n"}
           THEN <<"\"">>
                \o Flatten([i \in 1..Len(str) |->
                              IF str[i] = "\"" THEN <<"\"", "\"">> ELSE <<str[i]>>])
                \o <<"\"">>
           ELSE str

\* one row of the file
CsvRow(error) ==
  join(<< escapeCSV(<<error.type>>),
          escapeCSV(<<error.category>>),
          escapeCSV(LineText(error.line)),
          escapeCSV(error.element),
          escapeCSV(<<error.description>>),
          escapeCSV(additionalInfo(error)) >>, <<",">>)

\* csvContent that ends the file with a newline
csvContent_TrailingNewline(detailedErrors) ==
  join(<<join(headers, <<",">>)>>
         \o [i \in 1..Len(detailedErrors) |-> CsvRow(detailedErrors[i])],
       <<"\n">>) \o <<"\n">>

\* the text written to validation-errors.csv (detailedErrors is not empty)
csvContent(detailedErrors) ==
  join(<<join(headers, <<",">>)>>
         \o [i \in 1..Len(detailedErrors) |-> CsvRow(detailedErrors[i])],
       <<"\n">>)

(***************************************************************************)
(* Title derivation: md.match(/^#\s+(.+?)\s*$/m), then trim.               *)
(***************************************************************************)
FallbackTitle ==
  <<"U", "n", "t", "i", "t", "l", "e", "d", " ", "M", "a", "r", "k", "d", "o", "w",
    "n", " ", "I", "m", "p", "o", "r", "t">>

\* the match that starts at position p (1-based), with \s+ taking k characters
\* and the group taking the characters up to position e
TitleMatchAt(md, p, k, e) ==
  LET s == p + 1 + k
  IN  /\ p = 1 \/ md[p - 1] = "\n"
      /\ md[p] = "#"
      /\ k >= 1
      /\ p + k <= Len(md)
      /\ \A i \in (p + 1)..(p + k) : IsWhitespace(md[i])
      /\ s <= e /\ e <= Len(md)
      /\ \A i \in s..e : md[i] # "\n"
      /\ \E q \in (e + 1)..(Len(md) + 1) :
           /\ q = Len(md) + 1 \/ md[q] = "\n"
           /\ \A i \in (e + 1)..(q - 1) : IsWhitespace(md[i])

\* group 1 of the first match in backtracking order (leftmost start, \s+
\* greedy, the group lazy), or undefined when nothing matches
titleMatch(md) ==
  LET N == Len(md)
      starts == {p \in 1..N :
                   /\ p = 1 \/ md[p - 1] = "\n"
                   /\ md[p] = "#"
                   /\ \E k \in 1..(N - p) : \E e \in (p + 1 + k)..N :
                        TitleMatchAt(md, p, k, e)}
  IN  IF starts = {} THEN undefined
      ELSE LET p == SetMin(starts)
               k == SetMax({j \in 1..(N - p) :
                              \E e \in (p + 1 + j)..N : TitleMatchAt(md, p, j, e)})
               e == SetMin({f \in (p + 1 + k)..N : TitleMatchAt(md, p, k, f)})
           IN  SubSeq(md, p + 1 + k, e)

deriveTitle(md) ==
  LET m == titleMatch(md)
  IN  IF m # undefined THEN trim(m) ELSE FallbackTitle

(***************************************************************************)
(* The import document.                                                    *)
(***************************************************************************)
\* importDoc with the markdown trimmed
importDoc_Trimmed(title, text) ==
  [contentTypes |-> <<>>,
   entries |->
     << [sys |-> [type |-> "Entry",
                  contentType |->
                    [sys |-> [type |-> "Link", linkType |-> "ContentType",
                              id |-> "post"]],
                  publishedVersion |-> 1],
         fields |-> [internalTitle |-> [en_US |-> title],
                     markdown |-> [en_US |-> trim(text)]]] >>,
   assets |-> <<>>,
   locales |-> <<>>]

importDoc(title, text) ==
  [contentTypes |-> <<>>,
   entries |->
     << [sys |-> [type |-> "Entry",
                  contentType |->
                    [sys |-> [type |-> "Link", linkType |-> "ContentType",
                              id |-> "post"]],
                  publishedVersion |-> 1],
         fields |-> [internalTitle |-> [en_US |-> title],
                     markdown |-> [en_US |-> text]]] >>,
   assets |-> <<>>,
   locales |-> <<>>]

(***************************************************************************)
(* One run of generate-import-file.js, and one run of import.js.           *)
(***************************************************************************)
VARIABLES
  pc,                \* where the run is: "fetch", "validate", "export",
                     \* "check", "write", "done" (generateImport returned),
                     \* "exit" (process.exit was called)
  VALIDATE_MODE,     \* args.includes("--validate")
  EXPORT_ERRORS,     \* args.includes("--export-errors")
  remote,            \* the document the URL serves, once fetched
  md,                \* the fetched text
  internalTitle,     \* the derived title
  lexerResult,       \* the outcome of marked.lexer(md) in validateMarkdown
  validationResult,  \* <<>> or <<the value validateMarkdown returned>>
  csvFile,           \* validation-errors.csv: <<>> or <<its content>>
  importJson,        \* import.json: <<>> or <<the document written>>
  exitCode,          \* the exit code once pc is "done" or "exit"
  envFile,           \* .env as import.js finds it: <<>> or <<its lines>>
  envVars,           \* the envVars object import.js builds from .env
  commands,          \* the execSync calls of import.js, with their outcomes
  response,          \* <<>> or <<the Response fetch() resolved to>>
  errorMessage,      \* <<>> or the error.message the catch of the run printed
  URL_FLAG,          \* args.includes("--url")
  MARKDOWN_URL,      \* the URL to fetch, null while none is known
  prompts,           \* the questions validate.js has asked on the terminal
  shouldExportErrors \* what main() of validate.js passes to runValidation

vars ==
  <<pc, VALIDATE_MODE, EXPORT_ERRORS, remote, md, internalTitle, lexerResult,
    validationResult, csvFile, importJson, exitCode, envFile, envVars, commands,
    response, errorMessage, URL_FLAG, MARKDOWN_URL, prompts, shouldExportErrors>>

\* the variables only import.js touches
importVars == <<envFile, envVars, commands>>

\* the variables the fetch of a run sets
fetchVars == <<response, errorMessage>>

\* the variables only validate.js touches
promptVars == <<URL_FLAG, MARKDOWN_URL, prompts, shouldExportErrors>>

\* the URL given on the command line or typed at the prompt
ExampleUrl == <<"h", "t", "t", "p", "s", ":", "/", "/", "e", ".", "x">>

\* a run whose URL came with --url: nothing is asked
UrlGiven ==
  /\ URL_FLAG = TRUE
  /\ MARKDOWN_URL = ExampleUrl
  /\ prompts = <<>>
  /\ shouldExportErrors = FALSE

\* the Response of a fetch the server answered with a 2xx status
OkResponse == [ok |-> TRUE, status |-> 200, statusText |-> "OK"]

\* Responses outside the 2xx range: response.ok is false
FailedResponses ==
  { [ok |-> FALSE, status |-> 404, statusText |-> "Not Found"],
    [ok |-> FALSE, status |-> 403, statusText |-> "Forbidden"],
    [ok |-> FALSE, status |-> 500, statusText |-> "Internal Server Error"] }

\* `Failed to fetch markdown: ${response.status} ${response.statusText}`
fetchError(r) ==
  <<"Failed to fetch markdown: ", ToString(r.status), " ", r.statusText>>

\* envVars before .env is read: neither variable is there
NoEnvVars ==
  [CONTENTFUL_SPACE_ID |-> undefined, CONTENTFUL_ENVIRONMENT_ID |-> undefined]

\* an import.json left by an earlier run
PriorImport == importDoc(<<"o", "l", "d">>, <<"#", " ", "o", "l", "d">>)

Init ==
  /\ pc = "fetch"
  /\ VALIDATE_MODE \in BOOLEAN
  /\ EXPORT_ERRORS \in BOOLEAN
  /\ remote = <<>>
  /\ md = <<>>
  /\ internalTitle = <<>>
  /\ lexerResult = [threw |-> FALSE, tokens |-> <<>>]
  /\ validationResult = <<>>
  /\ csvFile = <<>>
  /\ importJson \in {<<>>, <<PriorImport>>}
  /\ exitCode = 0
  /\ envFile = <<>>
  /\ envVars = NoEnvVars
  /\ commands = <<>>
  /\ response = <<>>
  /\ errorMessage = <<>>
  /\ UrlGiven

\* process.exit(1), directly or from the catch of generateImport()
Exit1 ==
  /\ pc' = "exit"
  /\ exitCode' = 1

\* the response is not ok: the Error thrown reaches the catch
FetchFails ==
  /\ pc = "fetch"
  /\ Exit1
  /\ \E r \in FailedResponses :
       /\ response' = <<r>>
       /\ errorMessage' = fetchError(r)
  /\ UNCHANGED <<VALIDATE_MODE, EXPORT_ERRORS, remote, md, internalTitle,
                 lexerResult, validationResult, csvFile, importJson>>
  /\ UNCHANGED <<importVars, promptVars>>

\* the response is ok: the text is read and the title derived
FetchOk ==
  /\ pc = "fetch"
  /\ \E doc \in Docs :
       /\ remote' = doc
       /\ md' = Render(doc)
       /\ internalTitle' = deriveTitle(Render(doc))
  /\ response' = <<OkResponse>>
  /\ pc' = IF VALIDATE_MODE THEN "validate" ELSE "write"
  /\ UNCHANGED <<VALIDATE_MODE, EXPORT_ERRORS, lexerResult, validationResult,
                 csvFile, importJson, exitCode>>
  /\ UNCHANGED <<importVars, promptVars, errorMessage>>

\* Validate that collects the detailed errors only when they will be exported
Validate_DetailsOnlyForExport ==
  /\ pc = "validate"
  /\ \E threw \in BOOLEAN :
       LET lexed == [threw |-> threw,
                     tokens |-> IF threw THEN <<>> ELSE lexer(remote)]
           v == validateMarkdown(md, internalTitle, lexed)
       IN  /\ lexerResult' = lexed
           /\ validationResult' =
                <<IF threw \/ EXPORT_ERRORS THEN v
                  ELSE [v EXCEPT !.detailedErrors = <<>>]>>
  /\ pc' = "export"
  /\ UNCHANGED <<VALIDATE_MODE, EXPORT_ERRORS, remote, md, internalTitle, csvFile,
                 importJson, exitCode>>
  /\ UNCHANGED <<importVars, promptVars, fetchVars>>

\* validationResult = validateMarkdown(md, internalTitle)
Validate ==
  /\ pc = "validate"
  /\ \E threw \in BOOLEAN :
       LET lexed == [threw |-> threw,
                     tokens |-> IF threw THEN <<>> ELSE lexer(remote)]
       IN  /\ lexerResult' = lexed
           /\ validationResult' = <<validateMarkdown(md, internalTitle, lexed)>>
  /\ pc' = "export"
  /\ UNCHANGED <<VALIDATE_MODE, EXPORT_ERRORS, remote, md, internalTitle, csvFile,
                 importJson, exitCode>>
  /\ UNCHANGED <<importVars, promptVars, fetchVars>>

\* Export that writes the file only for a result that passed, as if it ran
\* after the success check
Export_OnlySuccessful ==
  /\ pc = "export"
  /\ LET r == validationResult[1]
     IN  IF ~EXPORT_ERRORS
         THEN pc' = "check" /\ UNCHANGED <<csvFile, exitCode>>
         ELSE IF "detailedErrors" \notin DOMAIN r
         THEN Exit1 /\ UNCHANGED csvFile
         ELSE IF Len(r.detailedErrors) > 0 /\ r.success
         THEN /\ csvFile' = <<csvContent(r.detailedErrors)>>
              /\ pc' = "check"
              /\ UNCHANGED exitCode
         ELSE pc' = "check" /\ UNCHANGED <<csvFile, exitCode>>
  /\ UNCHANGED <<VALIDATE_MODE, EXPORT_ERRORS, remote, md, internalTitle,
                 lexerResult, validationResult, importJson>>
  /\ UNCHANGED <<importVars, promptVars, fetchVars>>

\* if (EXPORT_ERRORS && validationResult.detailedErrors.length > 0) export;
\* reading .length of a detailedErrors that is not there throws a TypeError
Export ==
  /\ pc = "export"
  /\ LET r == validationResult[1]
     IN  IF ~EXPORT_ERRORS
         THEN pc' = "check" /\ UNCHANGED <<csvFile, exitCode>>
         ELSE IF "detailedErrors" \notin DOMAIN r
         THEN Exit1 /\ UNCHANGED csvFile
         ELSE IF Len(r.detailedErrors) > 0
         THEN /\ csvFile' = <<csvContent(r.detailedErrors)>>
              /\ pc' = "check"
              /\ UNCHANGED exitCode
         ELSE pc' = "check" /\ UNCHANGED <<csvFile, exitCode>>
  /\ UNCHANGED <<VALIDATE_MODE, EXPORT_ERRORS, remote, md, internalTitle,
                 lexerResult, validationResult, importJson>>
  /\ UNCHANGED <<importVars, promptVars, fetchVars>>

\* Check without the exit
Check_NoExit ==
  /\ pc = "check"
  /\ pc' = "write"
  /\ UNCHANGED <<VALIDATE_MODE, EXPORT_ERRORS, remote, md, internalTitle,
                 lexerResult, validationResult, csvFile, importJson, exitCode>>
  /\ UNCHANGED <<importVars, promptVars, fetchVars>>

\* if (!validationResult.success) process.exit(1)
Check ==
  /\ pc = "check"
  /\ IF ~validationResult[1].success
     THEN Exit1
     ELSE pc' = "write" /\ UNCHANGED exitCode
  /\ UNCHANGED <<VALIDATE_MODE, EXPORT_ERRORS, remote, md, internalTitle,
                 lexerResult, validationResult, csvFile, importJson>>
  /\ UNCHANGED <<importVars, promptVars, fetchVars>>

\* build the import document and write import.json
Write ==
  /\ pc = "write"
  /\ importJson' = <<importDoc(internalTitle, md)>>
  /\ pc' = "done"
  /\ UNCHANGED <<VALIDATE_MODE, EXPORT_ERRORS, remote, md, internalTitle,
                 lexerResult, validationResult, csvFile, exitCode>>
  /\ UNCHANGED <<importVars, promptVars, fetchVars>>

Next ==
  \/ FetchFails
  \/ FetchOk
  \/ Validate
  \/ Export
  \/ Check
  \/ Write

Spec == Init /\ [][Next]_vars

(***************************************************************************)
(* Runs with --validate over other families of documents.  Each starts     *)
(* from the state in which the text of one document of the family has been *)
(* fetched and its title derived.                                          *)
(***************************************************************************)
Fetched(docs) ==
  /\ pc = "validate"
  /\ VALIDATE_MODE = TRUE
  /\ EXPORT_ERRORS \in BOOLEAN
  /\ remote \in docs
  /\ md = Render(remote)
  /\ internalTitle = deriveTitle(md)
  /\ lexerResult = [threw |-> FALSE, tokens |-> <<>>]
  /\ validationResult = <<>>
  /\ csvFile = <<>>
  /\ importJson = <<>>
  /\ exitCode = 0
  /\ envFile = <<>>
  /\ envVars = NoEnvVars
  /\ commands = <<>>
  /\ response = <<OkResponse>>
  /\ errorMessage = <<>>
  /\ UrlGiven

\* the steps of a run once the text is fetched
RunNext ==
  \/ Validate
  \/ Export
  \/ Check
  \/ Write

\* blocks whose texts hold the characters CSV quoting is about
CsvBlocks ==
  { Block("heading", 1, <<"A">>, "none"),
    Block("heading", 1, <<"A", ",", "B">>, "none"),
    Block("text", 0, <<"A">>, "none"),
    Block("link", 0, <<"A">>, "empty"),
    Block("link", 0, <<"A", "\"", "B">>, "empty"),
    Block("link", 0, <<"A", "\n", "B">>, "empty"),
    Block("link", 0, <<",", "\"">>, "empty"),
    Block("image", 0, <<>>, "rel") }

CsvDocs == UNION {[1..n -> CsvBlocks] : n \in 0..MaxBlocks}

CsvInit == Fetched(CsvDocs)

CsvSpec == CsvInit /\ [][RunNext]_vars

\* images with every kind of alt text and destination, and a heading
ImageBlocks ==
  { Block("heading", 1, <<"A">>, "none"),
    Block("image", 0, <<"A">>, "empty"),
    Block("image", 0, <<"A">>, "rel"),
    Block("image", 0, <<"A">>, "http"),
    Block("image", 0, <<"A">>, "https"),
    Block("image", 0, <<"A">>, "inner"),
    Block("image", 0, <<>>, "empty"),
    Block("image", 0, <<>>, "rel"),
    Block("image", 0, <<>>, "https"),
    Block("image", 0, <<" ">>, "rel"),
    Block("image", 0, <<" ">>, "angle") }

ImageDocs == UNION {[1..n -> ImageBlocks] : n \in 0..MaxBlocks}

ImageInit == Fetched(ImageDocs)

ImageSpec == ImageInit /\ [][RunNext]_vars

\* links with every kind of empty destination, with and without a label
LinkBlocks ==
  { Block("heading", 1, <<"A">>, "none"),
    Block("text", 0, <<"A">>, "none"),
    Block("link", 0, <<"A">>, "empty"),
    Block("link", 0, <<"A">>, "space"),
    Block("link", 0, <<"A">>, "angle"),
    Block("link", 0, <<"A">>, "rel"),
    Block("link", 0, <<"B">>, "space"),
    Block("link", 0, <<>>, "empty"),
    Block("quotelink", 0, <<"B">>, "empty") }

LinkDocs == UNION {[1..n -> LinkBlocks] : n \in 0..MaxBlocks}

LinkInit == Fetched(LinkDocs)

LinkSpec == LinkInit /\ [][RunNext]_vars

\* a line of n characters
LineOfLength(n) == [i \in 1..n |-> "x"]

\* a paragraph of exact lines of 120 characters, then long lines of 121,
\* then a short line
Paragraph(exact, long) ==
  join([i \in 1..exact |-> LineOfLength(LongLineLength)]
         \o [i \in 1..long |-> LineOfLength(LongLineLength + 1)]
         \o << <<"A">> >>,
       <<"\n">>)

\* documents of one such paragraph, with or without a heading before it
LongDocs ==
  { (IF h THEN <<Block("setext", 1, <<"A">>, "none")>> ELSE <<>>)
      \o <<Block("text", 0, Paragraph(exact, long), "none")>> :
    h \in BOOLEAN, exact \in 0..1, long \in 0..MaxLongLines }

LongInit == Fetched(LongDocs)

LongSpec == LongInit /\ [][RunNext]_vars

\* blocks that trigger the image and link rules
OrderBlocks ==
  { Block("image", 0, <<"A">>, "empty"),
    Block("image", 0, <<>>, "empty"),
    Block("image", 0, <<>>, "https"),
    Block("link", 0, <<"A">>, "empty"),
    Block("link", 0, <<"B">>, "empty"),
    Block("quotelink", 0, <<"A">>, "empty") }

\* documents that trigger several rules at once: none or two depth-1
\* headings, then images and links, then none or a paragraph of long lines
OrderDocs ==
  { h \o body \o p :
    h \in {<<>>, <<Block("setext", 1, <<"A">>, "none"),
                   Block("setext", 1, <<"B">>, "none")>>},
    body \in UNION {[1..n -> OrderBlocks] : n \in 0..MaxBlocks},
    p \in {<<>>, <<Block("text", 0, Paragraph(0, MaxLongLines), "none")>>} }

OrderInit == Fetched(OrderDocs)

\* images inside a paragraph, a blockquote and a list item, next to a
\* top-level image and to links at the same places
NestedBlocks ==
  { Block("heading", 1, <<"A">>, "none"),
    Block("image", 0, <<>>, "empty"),
    Block("pimage", 0, <<"A">>, "empty"),
    Block("pimage", 0, <<>>, "rel"),
    Block("pimage", 0, <<"A">>, "https"),
    Block("quoteimage", 0, <<>>, "empty"),
    Block("listimage", 0, <<>>, "https"),
    Block("link", 0, <<"A">>, "empty"),
    Block("quotelink", 0, <<"A">>, "empty"),
    Block("listlink", 0, <<"A">>, "empty") }

NestedDocs == UNION {[1..n -> NestedBlocks] : n \in 0..MaxBlocks}

NestedInit == Fetched(NestedDocs)

\* headings, and text that is no heading: a paragraph and fenced code
TitleBlocks ==
  { Block("heading", 1, <<"A">>, "none"),
    Block("heading", 2, <<"A">>, "none"),
    Block("setext", 1, <<"A">>, "none"),
    Block("text", 0, <<"A">>, "none"),
    Block("fence", 0, <<"A">>, "none"),
    Block("fence", 0, <<"#", " ", "A">>, "none") }

TitleDocs == UNION {[1..n -> TitleBlocks] : n \in 0..MaxBlocks}

TitleInit == Fetched(TitleDocs)

TitleSpec == TitleInit /\ [][RunNext]_vars

NestedSpec == NestedInit /\ [][RunNext]_vars

OrderSpec == OrderInit /\ [][RunNext]_vars

(***************************************************************************)
(* One run of generate.js: fetch the text, derive the title, write         *)
(* outputs/import.json.  It does not validate.                             *)
(***************************************************************************)
TextChars == {"#", " ", "\n", "a"}

\* the texts a URL may serve
Texts == UNION {[1..n -> TextChars] : n \in 0..MaxTextLen}

GenerateInit ==
  /\ pc = "fetch"
  /\ VALIDATE_MODE = FALSE
  /\ EXPORT_ERRORS = FALSE
  /\ remote = <<>>
  /\ md = <<>>
  /\ internalTitle = <<>>
  /\ lexerResult = [threw |-> FALSE, tokens |-> <<>>]
  /\ validationResult = <<>>
  /\ csvFile = <<>>
  /\ importJson \in {<<>>, <<PriorImport>>}
  /\ exitCode = 0
  /\ envFile = <<>>
  /\ envVars = NoEnvVars
  /\ commands = <<>>
  /\ response = <<>>
  /\ errorMessage = <<>>
  /\ UrlGiven

\* a fetch that does not look at response.ok: the body of the error page is
\* taken for the markdown
GenerateFetchFails_Unchecked ==
  /\ pc = "fetch"
  /\ \E r \in FailedResponses, text \in Texts :
       /\ response' = <<r>>
       /\ md' = text
       /\ internalTitle' = deriveTitle(text)
  /\ pc' = "write"
  /\ UNCHANGED <<VALIDATE_MODE, EXPORT_ERRORS, remote, lexerResult,
                 validationResult, csvFile, importJson, exitCode>>
  /\ UNCHANGED <<importVars, promptVars, errorMessage>>

\* the response is not ok: the Error thrown reaches the catch of main()
GenerateFetchFails ==
  /\ pc = "fetch"
  /\ Exit1
  /\ \E r \in FailedResponses :
       /\ response' = <<r>>
       /\ errorMessage' = fetchError(r)
  /\ UNCHANGED <<VALIDATE_MODE, EXPORT_ERRORS, remote, md, internalTitle,
                 lexerResult, validationResult, csvFile, importJson>>
  /\ UNCHANGED <<importVars, promptVars>>

\* the response is ok: the text is read and the title derived
GenerateFetchOk ==
  /\ pc = "fetch"
  /\ \E text \in Texts :
       /\ md' = text
       /\ internalTitle' = deriveTitle(text)
  /\ response' = <<OkResponse>>
  /\ pc' = "write"
  /\ UNCHANGED <<VALIDATE_MODE, EXPORT_ERRORS, remote, lexerResult,
                 validationResult, csvFile, importJson, exitCode>>
  /\ UNCHANGED <<importVars, promptVars, errorMessage>>

\* build the import document and write outputs/import.json
GenerateWrite ==
  /\ pc = "write"
  /\ importJson' = <<importDoc(internalTitle, md)>>
  /\ pc' = "done"
  /\ UNCHANGED <<VALIDATE_MODE, EXPORT_ERRORS, remote, md, internalTitle,
                 lexerResult, validationResult, csvFile, exitCode>>
  /\ UNCHANGED <<importVars, promptVars, fetchVars>>

GenerateNext ==
  \/ GenerateFetchFails
  \/ GenerateFetchOk
  \/ GenerateWrite

GenerateSpec == GenerateInit /\ [][GenerateNext]_vars

(***************************************************************************)
(* One run of import.js.  A name of an environment variable is one element *)
(* of the text of .env; envVars keeps the two variables the script reads.  *)
(***************************************************************************)
SpaceIdKey == "CONTENTFUL_SPACE_ID"

EnvironmentIdKey == "CONTENTFUL_ENVIRONMENT_ID"

\* the characters [A-Z_] matches
IsKeyChar(c) == c \in {SpaceIdKey, EnvironmentIdKey, "A", "Z", "_"}

\* the lines .env files are made of
EnvLines ==
  { <<SpaceIdKey, "=", "s">>,
    <<SpaceIdKey, "=">>,
    <<EnvironmentIdKey, "=", "m">>,
    <<" ", EnvironmentIdKey, "=", "m", " ">>,
    <<"#", SpaceIdKey, "=", "s">>,
    <<SpaceIdKey, " ", "=", "s">>,
    <<>> }

\* the contents a .env file may have
EnvContents ==
  {join(lines, <<"\n">>) : lines \in UNION {[1..n -> EnvLines] : n \in 0..MaxEnvLines}}

\* trimmed.match(/^([A-Z_]+)=(.*)$/): the key and value, or null
envMatch(trimmed) ==
  LET eq == {i \in 1..Len(trimmed) : trimmed[i] = "="}
  IN  IF eq = {} THEN [found |-> FALSE, key |-> <<>>, value |-> <<>>]
      ELSE LET i == SetMin(eq)
           IN  IF i >= 2 /\ \A j \in 1..(i - 1) : IsKeyChar(trimmed[j])
               THEN [found |-> TRUE,
                     key |-> SubSeq(trimmed, 1, i - 1),
                     value |-> SubSeq(trimmed, i + 1, Len(trimmed))]
               ELSE [found |-> FALSE, key |-> <<>>, value |-> <<>>]

\* envVars[key] once every line of envContent has been handled
envValue(envContent, key) ==
  LET lines == split(envContent, "\n")
      sets == {i \in 1..Len(lines) :
                 LET trimmed == trim(lines[i])
                 IN  /\ trimmed # <<>>
                     /\ ~startsWith(trimmed, <<"#">>)
                     /\ envMatch(trimmed).found
                     /\ envMatch(trimmed).key = <<key>>}
  IN  IF sets = {} THEN undefined
      ELSE envMatch(trim(lines[SetMax(sets)])).value

\* the envVars loadEnvFile returns
loadEnvFile(envContent) ==
  [CONTENTFUL_SPACE_ID |-> envValue(envContent, SpaceIdKey),
   CONTENTFUL_ENVIRONMENT_ID |-> envValue(envContent, EnvironmentIdKey)]

\* one execSync call and whether it returned or threw
Command(name, spaceId, environmentId, ok) ==
  [name |-> name, spaceId |-> spaceId, environmentId |-> environmentId, ok |-> ok]

ImportInit ==
  /\ pc = "start"
  /\ VALIDATE_MODE = FALSE
  /\ EXPORT_ERRORS = FALSE
  /\ remote = <<>>
  /\ md = <<>>
  /\ internalTitle = <<>>
  /\ lexerResult = [threw |-> FALSE, tokens |-> <<>>]
  /\ validationResult = <<>>
  /\ csvFile = <<>>
  /\ importJson \in {<<>>, <<PriorImport>>}
  /\ exitCode = 0
  /\ envFile \in {<<>>} \cup {<<c>> : c \in EnvContents}
  /\ envVars = NoEnvVars
  /\ commands = <<>>
  /\ response = <<>>
  /\ errorMessage = <<>>
  /\ UrlGiven

\* what import.js never changes
ImportFrame ==
  UNCHANGED <<VALIDATE_MODE, EXPORT_ERRORS, remote, md, internalTitle,
              lexerResult, validationResult, csvFile, importJson, envFile,
              promptVars, fetchVars>>

\* if (!fs.existsSync(importFilePath)) process.exit(1)
ImportFileCheck ==
  /\ pc = "start"
  /\ IF importJson = <<>> THEN Exit1 ELSE pc' = "env" /\ UNCHANGED exitCode
  /\ UNCHANGED <<envVars, commands>>
  /\ ImportFrame

\* envVars = loadEnvFile(), which exits when .env is not there
LoadEnvFile ==
  /\ pc = "env"
  /\ IF envFile = <<>>
     THEN Exit1 /\ UNCHANGED envVars
     ELSE /\ envVars' = loadEnvFile(envFile[1])
          /\ pc' = "space"
          /\ UNCHANGED exitCode
  /\ UNCHANGED commands
  /\ ImportFrame

\* if (!CONTENTFUL_SPACE_ID) process.exit(1)
SpaceIdCheck ==
  /\ pc = "space"
  /\ IF ~Truthy(envVars.CONTENTFUL_SPACE_ID)
     THEN Exit1
     ELSE pc' = "environment" /\ UNCHANGED exitCode
  /\ UNCHANGED <<envVars, commands>>
  /\ ImportFrame

\* EnvironmentIdCheck that lets an empty value pass
EnvironmentIdCheck_Skipped ==
  /\ pc = "environment"
  /\ pc' = "cli"
  /\ UNCHANGED <<exitCode, envVars, commands>>
  /\ ImportFrame

\* if (!CONTENTFUL_ENVIRONMENT_ID) process.exit(1)
EnvironmentIdCheck ==
  /\ pc = "environment"
  /\ IF ~Truthy(envVars.CONTENTFUL_ENVIRONMENT_ID)
     THEN Exit1
     ELSE pc' = "cli" /\ UNCHANGED exitCode
  /\ UNCHANGED <<envVars, commands>>
  /\ ImportFrame

\* execSync("contentful --version"), which throws when the CLI is missing
CliCheck ==
  /\ pc = "cli"
  /\ \E ok \in BOOLEAN :
       /\ commands' = Append(commands, Command("contentful --version", <<>>, <<>>, ok))
       /\ IF ok THEN pc' = "run" /\ UNCHANGED exitCode ELSE Exit1
  /\ UNCHANGED envVars
  /\ ImportFrame

\* execSync(command) for the contentful space import command
RunImport ==
  /\ pc = "run"
  /\ \E ok \in BOOLEAN :
       /\ commands' =
            Append(commands,
                   Command("contentful space import", envVars.CONTENTFUL_SPACE_ID,
                           envVars.CONTENTFUL_ENVIRONMENT_ID, ok))
       /\ IF ok THEN pc' = "done" /\ UNCHANGED exitCode ELSE Exit1
  /\ UNCHANGED envVars
  /\ ImportFrame

ImportNext ==
  \/ ImportFileCheck
  \/ LoadEnvFile
  \/ SpaceIdCheck
  \/ EnvironmentIdCheck
  \/ CliCheck
  \/ RunImport

ImportSpec == ImportInit /\ [][ImportNext]_vars

(***************************************************************************)
(* One run of validate.js: main() asks for what the command line did not   *)
(* give, then runValidation fetches, validates with the script's own copy  *)
(* of validateMarkdown, exports and sets the exit code.  MARKDOWN_URL is   *)
(* the empty text while it is null.                                        *)
(***************************************************************************)
\* the return value of the catch branch of the parse step in validate.js
validateJs_ParseFailure ==
  [success |-> FALSE,
   issues |-> <<"Failed to parse markdown - syntax errors present">>,
   warnings |-> <<>>,
   tokens |-> <<>>,
   detailedErrors |-> <<>>]

\* validateMarkdown of validate.js: the rules are those of
\* generate-import-file.js, line for line
validateJs_validateMarkdown(text, title, lexed) ==
  IF lexed.threw THEN validateJs_ParseFailure
  ELSE validateMarkdown(text, title, lexed)

\* answer.toLowerCase() for the answers typed in this model
toLowerCase(answer) ==
  CASE answer = "Y" -> "y"
    [] answer = "YES" -> "yes"
    [] OTHER -> answer

\* what confirm(query) resolves to for an answer
confirm(answer) == toLowerCase(answer) = "y" \/ toLowerCase(answer) = "yes"

\* what may be typed at the yes/no prompt
Answers == {"y", "Y", "yes", "YES", "n", "no", ""}

\* what may be typed at the URL prompt
UrlAnswers == {<<>>, <<" ">>, ExampleUrl}

UrlQuestion == "Enter the markdown URL: "

ExportQuestion == "Export validation errors to CSV? (y/n): "

\* the documents the URL of a validate.js run may serve
ValidateJsDocs ==
  UNION {[1..n -> { Block("heading", 1, <<"A">>, "none"),
                    Block("text", 0, <<"A">>, "none"),
                    Block("link", 0, <<"A">>, "empty") }] : n \in 0..MaxBlocks}

\* the command lines: --export-errors or not, and no --url, --url as the
\* last argument, or --url with its value
ValidateJsInit ==
  /\ pc = "main"
  /\ VALIDATE_MODE = FALSE
  /\ EXPORT_ERRORS \in BOOLEAN
  /\ URL_FLAG \in BOOLEAN
  /\ MARKDOWN_URL \in (IF URL_FLAG THEN {<<>>, ExampleUrl} ELSE {<<>>})
  /\ prompts = <<>>
  /\ shouldExportErrors = FALSE
  /\ remote = <<>>
  /\ md = <<>>
  /\ internalTitle = <<>>
  /\ lexerResult = [threw |-> FALSE, tokens |-> <<>>]
  /\ validationResult = <<>>
  /\ csvFile = <<>>
  /\ importJson = <<>>
  /\ exitCode = 0
  /\ envFile = <<>>
  /\ envVars = NoEnvVars
  /\ commands = <<>>
  /\ response = <<>>
  /\ errorMessage = <<>>

\* what validate.js never changes
ValidateJsFrame ==
  UNCHANGED <<VALIDATE_MODE, EXPORT_ERRORS, URL_FLAG, importJson, importVars>>

\* if (!MARKDOWN_URL) ask for it; an empty answer ends the run
Main_PromptUrl ==
  /\ pc = "main"
  /\ IF ~Truthy(MARKDOWN_URL)
     THEN \E answer \in UrlAnswers :
            /\ prompts' = Append(prompts, UrlQuestion)
            /\ MARKDOWN_URL' = answer
            /\ IF ~Truthy(answer) \/ ~Truthy(trim(answer))
               THEN Exit1
               ELSE pc' = "confirm" /\ UNCHANGED exitCode
     ELSE pc' = "confirm" /\ UNCHANGED <<prompts, MARKDOWN_URL, exitCode>>
  /\ UNCHANGED <<shouldExportErrors, remote, md, internalTitle, lexerResult,
                 validationResult, csvFile, fetchVars>>
  /\ ValidateJsFrame

\* let shouldExportErrors = EXPORT_ERRORS;
\* if (!args.includes("--url")) shouldExportErrors = await confirm(...)
Main_PromptExport ==
  /\ pc = "confirm"
  /\ IF ~URL_FLAG
     THEN \E answer \in Answers :
            /\ prompts' = Append(prompts, ExportQuestion)
            /\ shouldExportErrors' = confirm(answer)
     ELSE shouldExportErrors' = EXPORT_ERRORS /\ UNCHANGED prompts
  /\ pc' = "fetch"
  /\ UNCHANGED <<MARKDOWN_URL, remote, md, internalTitle, lexerResult,
                 validationResult, csvFile, exitCode, fetchVars>>
  /\ ValidateJsFrame

\* the response is not ok: the Error thrown reaches the catch of main()
RunValidation_FetchFails ==
  /\ pc = "fetch"
  /\ Exit1
  /\ \E r \in FailedResponses :
       /\ response' = <<r>>
       /\ errorMessage' = fetchError(r)
  /\ UNCHANGED <<MARKDOWN_URL, prompts, shouldExportErrors, remote, md,
                 internalTitle, lexerResult, validationResult, csvFile>>
  /\ ValidateJsFrame

\* the response is ok: the text is read and the title derived
RunValidation_FetchOk ==
  /\ pc = "fetch"
  /\ \E doc \in ValidateJsDocs :
       /\ remote' = doc
       /\ md' = Render(doc)
       /\ internalTitle' = deriveTitle(Render(doc))
  /\ response' = <<OkResponse>>
  /\ pc' = "validate"
  /\ UNCHANGED <<MARKDOWN_URL, prompts, shouldExportErrors, lexerResult,
                 validationResult, csvFile, exitCode, errorMessage>>
  /\ ValidateJsFrame

\* validationResult = validateMarkdown(md, internalTitle)
RunValidation_Validate ==
  /\ pc = "validate"
  /\ \E threw \in BOOLEAN :
       LET lexed == [threw |-> threw,
                     tokens |-> IF threw THEN <<>> ELSE lexer(remote)]
       IN  /\ lexerResult' = lexed
           /\ validationResult' =
                <<validateJs_validateMarkdown(md, internalTitle, lexed)>>
  /\ pc' = "export"
  /\ UNCHANGED <<MARKDOWN_URL, prompts, shouldExportErrors, remote, md,
                 internalTitle, csvFile, exitCode, fetchVars>>
  /\ ValidateJsFrame

\* if (shouldExportErrors && validationResult.detailedErrors.length > 0) export
RunValidation_Export ==
  /\ pc = "export"
  /\ IF shouldExportErrors /\ Len(validationResult[1].detailedErrors) > 0
     THEN csvFile' = <<csvContent(validationResult[1].detailedErrors)>>
     ELSE UNCHANGED csvFile
  /\ pc' = "check"
  /\ UNCHANGED <<MARKDOWN_URL, prompts, shouldExportErrors, remote, md,
                 internalTitle, lexerResult, validationResult, exitCode, fetchVars>>
  /\ ValidateJsFrame

\* if (!validationResult.success) process.exit(1)
RunValidation_Check ==
  /\ pc = "check"
  /\ IF ~validationResult[1].success
     THEN Exit1
     ELSE pc' = "done" /\ UNCHANGED exitCode
  /\ UNCHANGED <<MARKDOWN_URL, prompts, shouldExportErrors, remote, md,
                 internalTitle, lexerResult, validationResult, csvFile, fetchVars>>
  /\ ValidateJsFrame

ValidateJsNext ==
  \/ Main_PromptUrl
  \/ Main_PromptExport
  \/ RunValidation_FetchFails
  \/ RunValidation_FetchOk
  \/ RunValidation_Validate
  \/ RunValidation_Export
  \/ RunValidation_Check

ValidateJsSpec == ValidateJsInit /\ [][ValidateJsNext]_vars

(***************************************************************************)
(* Properties.  The definitions below read the token forest directly and   *)
(* share nothing with the rules above.                                     *)
(***************************************************************************)
Validated == validationResult # <<>>

Result == validationResult[1]

\* validateMarkdown ran and the lexer did not throw
Parsed == Validated /\ ~lexerResult.threw

Tokens == lexerResult.tokens

\* a value that is absent, or empty once surrounding whitespace is removed
Blank(v) == v = undefined \/ \A i \in 1..Len(v) : IsWhitespace(v[i])

\* number of positions of seq that hold x
CountIn(seq, x) == Cardinality({i \in 1..Len(seq) : seq[i] = x})

\* positions of the top-level depth-1 headings
H1Idx == {i \in 1..Len(Tokens) : Tokens[i].type = "heading" /\ Tokens[i].depth = 1}

\* positions of the top-level images
ImageIdx == {i \in 1..Len(Tokens) : Tokens[i].type = "image"}

\* positions of the top-level images whose href is blank
BrokenImageIdx == {i \in ImageIdx : Blank(Tokens[i].href)}

\* number of link tokens with a blank href in the whole forest, children of
\* every container included
RECURSIVE TreeBrokenLinks(_)
TreeBrokenLinks(toks) ==
  IF toks = <<>> THEN 0
  ELSE LET t == Head(toks)
       IN  (IF t.type = "link" /\ Blank(t.href) THEN 1 ELSE 0)
           + TreeBrokenLinks(t.tokens) + TreeBrokenLinks(t.items)
           + TreeBrokenLinks(Tail(toks))

\* the detailedErrors of one category
EntriesOf(cat) == SelectSeq(Result.detailedErrors, LAMBDA e : e.category = cat)

\* the counts a summary string may carry in this model
Counts == 0..(MaxBlocks + 2)

\* C1: when parsing succeeds, success is true exactly when issues is empty,
\* which is exactly when there is a top-level depth-1 heading, no broken
\* top-level image and no broken link anywhere in the token tree.
C1_SuccessIffNoCriticalDefect ==
  Parsed =>
    /\ Result.success <=> (Result.issues = <<>>)
    /\ Result.success <=>
         (H1Idx # {} /\ BrokenImageIdx = {} /\ TreeBrokenLinks(Tokens) = 0)

C4_ParseFailureResult ==
  (Validated /\ lexerResult.threw) =>
    Result = [success |-> FALSE,
              issues |-> <<"Failed to parse markdown - syntax errors present">>,
              warnings |-> <<>>,
              tokens |-> <<>>,
              detailedErrors |-> <<>>]

\* C5: with N top-level images whose href is blank, issues holds "N image(s)
\* with missing URLs" once if N >= 1 and no such string if N = 0, and there
\* are exactly N Critical "Broken Image" entries "Image has empty URL".
C5_BrokenImages ==
  LET N == Cardinality(BrokenImageIdx)
      es == EntriesOf("Broken Image")
  IN  Parsed =>
        /\ \A k \in Counts :
             CountIn(Result.issues, ToString(k) \o " image(s) with missing URLs")
               = IF k = N /\ N >= 1 THEN 1 ELSE 0
        /\ Len(es) = N
        /\ \A i \in 1..Len(es) :
             es[i].type = "Critical" /\ es[i].description = "Image has empty URL"

\* a broken image whose href is whitespace only, beside an image with a URL
C5_Witness ==
  /\ Parsed
  /\ \E i \in BrokenImageIdx : Tokens[i].href = <<" ">>
  /\ \E i \in ImageIdx : ~Blank(Tokens[i].href)

\* C6: a link with a blank href counts wherever it sits in the token tree:
\* with N >= 1 such links in the whole tree, issues holds "N link(s) with
\* missing URLs", the result fails, and there are exactly N Critical "Broken
\* Link" entries.
C6_BrokenLinksAnywhere ==
  LET N == TreeBrokenLinks(Tokens)
      es == EntriesOf("Broken Link")
  IN  (Parsed /\ N >= 1) =>
        /\ CountIn(Result.issues, ToString(N) \o " link(s) with missing URLs") = 1
        /\ ~Result.success
        /\ Len(es) = N
        /\ \A i \in 1..Len(es) : es[i].type = "Critical"

\* s occurs in text at position i (1-based)
OccursAt(text, s, i) ==
  /\ i >= 1
  /\ i + Len(s) - 1 <= Len(text)
  /\ \A j \in 1..Len(s) : text[i + j - 1] = s[j]

\* number of newline characters among the first n characters of text
NewlinesBefore(text, n) == Cardinality({j \in 1..n : text[j] = "\n"})

\* the texts looked up in the text just fetched (pc is "validate" or "write")
SearchTexts ==
  { <<>>, <<"#">>, <<"A">>, <<"Z">>, <<"\n">>, <<"\n", "\n">>,
    <<"#", " ", "A">>, <<"#", " ", "B">>,
    <<"[", "A", "]", "(", ")">>, <<"[", "A", "]", "(", " ", ")">>,
    <<"!", "[", "A", "]", "(", ")">>, <<"!", "[", "]", "(", ")">> }

ExampleText ==
  <<"l", "i", "n", "e", "1", "\n", "l", "i", "n", "e", "2", "\n",
    "#", " ", "T", "i", "t", "l", "e", "\n", "l", "i", "n", "e", "4">>

\* C7: findLineNumber(rawText, s) is not-found ("Unknown") when s does not
\* occur; otherwise its line is 1 + the number of newlines before the start
\* of the first occurrence, between 1 and the number of lines of rawText;
\* "# Title" in "line1\nline2\n# Title\nline4" is on line 3.
C7_LineResolution ==
  /\ LineOf(findLineNumber(ExampleText, <<"#", " ", "T", "i", "t", "l", "e">>))
       = [known |-> TRUE, n |-> 3]
  /\ pc \in {"validate", "write"} =>
     \A s \in SearchTexts :
       LET loc == findLineNumber(md, s)
           occ == {i \in 1..(Len(md) + 1) : OccursAt(md, s, i)}
       IN  IF occ = {}
           THEN ~loc.found /\ LineOf(loc) = Unknown
           ELSE LET first == CHOOSE i \in occ : \A k \in occ : i <= k
                IN  /\ loc.found
                    /\ loc.lineNumber = 1 + NewlinesBefore(md, first - 1)
                    /\ loc.lineNumber >= 1
                    /\ loc.lineNumber <= 1 + NewlinesBefore(md, Len(md))
                    /\ LineOf(loc) = [known |-> TRUE, n |-> loc.lineNumber]

\* a fetched text in which one search text occurs on two lines, another has
\* its first occurrence after the first line, and a third does not occur
C7_Witness ==
  /\ pc \in {"validate", "write"}
  /\ \E s \in SearchTexts :
       \E i, k \in 1..Len(md) :
         /\ OccursAt(md, s, i) /\ OccursAt(md, s, k)
         /\ NewlinesBefore(md, i) < NewlinesBefore(md, k)
  /\ \E s \in SearchTexts : findLineNumber(md, s).lineNumber > 1
  /\ \E s \in SearchTexts : ~findLineNumber(md, s).found

\* the text with every character but the newlines overwritten, so that no
\* snippet occurs in it and its lines keep their lengths
Blot(text) == [i \in 1..Len(text) |-> IF text[i] = "\n" THEN "\n" ELSE "x"]

\* positions of the top-level images whose alt text is blank
NoAltIdx == {i \in ImageIdx : Blank(Tokens[i].text)}

\* C8: a failed lookup never suppresses a finding.  Validating the same
\* tokens against a text in which no snippet occurs gives the same issues,
\* warnings and success and the same detailed errors but for the line, which
\* is "Unknown"; there is one entry per broken image, per image without alt
\* text, and per depth-1 heading when there are several.
C8_LookupFailureKeepsFinding ==
  Parsed =>
    LET r == Result
        q == validateMarkdown(Blot(md), internalTitle, lexerResult)
        N == Cardinality(H1Idx)
    IN  /\ q.issues = r.issues
        /\ q.warnings = r.warnings
        /\ q.success = r.success
        /\ Len(q.detailedErrors) = Len(r.detailedErrors)
        /\ \A i \in 1..Len(q.detailedErrors) :
             /\ q.detailedErrors[i].line = Unknown
             /\ [q.detailedErrors[i] EXCEPT !.line = r.detailedErrors[i].line]
                  = r.detailedErrors[i]
        /\ Len(EntriesOf("Broken Image")) = Cardinality(BrokenImageIdx)
        /\ Len(EntriesOf("Missing Alt Text")) = Cardinality(NoAltIdx)
        /\ Len(EntriesOf("Multiple H1")) = IF N > 1 THEN N ELSE 0
        /\ Len(EntriesOf("Broken Link")) > 0 =>
             CountIn(r.issues, ToString(Len(EntriesOf("Broken Link")))
                                 \o " link(s) with missing URLs") = 1

\* a run in which one entry was located and another was not
C8_Witness ==
  /\ Parsed
  /\ \E i, j \in 1..Len(Result.detailedErrors) :
       /\ Result.detailedErrors[i].line = Unknown
       /\ Result.detailedErrors[j].line.known

\* the tokens the detailed errors are about, in the order of the entries
Causes ==
  LET h1s == SelectSeq(Tokens, LAMBDA t : t.type = "heading" /\ t.depth = 1)
      imgs == SelectSeq(Tokens, LAMBDA t : t.type = "image")
  IN  (IF Len(h1s) > 1 THEN h1s ELSE <<>>)
      \o SelectSeq(imgs, LAMBDA t : Blank(t.href))
      \o SelectSeq(imgs, LAMBDA t : Blank(t.text))
      \o SelectSeq(extractLinks(Tokens), LAMBDA t : Blank(t.href))

\* C9: every detailed error whose line is a number carries the line on which
\* the token that caused it appears in rawText.
C9_ExactLine ==
  Parsed =>
    /\ Len(Causes) = Len(Result.detailedErrors)
    /\ \A i \in 1..Len(Result.detailedErrors) :
         Result.detailedErrors[i].line.known =>
           Result.detailedErrors[i].line.n = Causes[i].line

\* C10: with --validate, import.json is written only by a run whose
\* validation returned success=true; a run that returned success=false never
\* reaches the write and exits with code 1, and a run that returned
\* success=true, with or without warnings, never exits with an error and
\* ends with import.json written.
C10_ImportOnlyOnSuccess ==
  /\ [][(VALIDATE_MODE /\ importJson' # importJson) =>
          /\ Validated
          /\ Result.success
          /\ importJson' = <<importDoc(internalTitle, md)>>]_vars
  /\ []((VALIDATE_MODE /\ Validated) =>
          IF Result.success
          THEN /\ pc # "exit"
               /\ pc = "done" =>
                    exitCode = 0 /\ importJson = <<importDoc(internalTitle, md)>>
          ELSE /\ pc \in {"export", "check", "exit"}
               /\ pc = "exit" => exitCode = 1)

\* a failed validation that exited with code 1 and left the old import.json
C10_Witness ==
  /\ VALIDATE_MODE /\ Parsed /\ ~Result.success
  /\ pc = "exit" /\ exitCode = 1
  /\ importJson = <<PriorImport>>

(***************************************************************************)
(* Reading a CSV text back: records end at a newline outside quotes,       *)
(* fields at a comma outside quotes, and a doubled quote inside a quoted   *)
(* field stands for one quote.                                             *)
(***************************************************************************)
\* the k-th smallest element of a set of numbers
KthOf(S, k) == CHOOSE i \in S : Cardinality({j \in S : j <= i}) = k

\* the pieces of text between the positions seps
SplitAt(text, seps) ==
  LET n == Cardinality(seps)
  IN  [k \in 1..(n + 1) |->
         SubSeq(text,
                IF k = 1 THEN 1 ELSE KthOf(seps, k - 1) + 1,
                IF k = n + 1 THEN Len(text) ELSE KthOf(seps, k) - 1)]

\* position i of text has an even number of quotes before it
OutsideQuotes(text, i) ==
  Cardinality({j \in 1..(i - 1) : text[j] = "\""}) % 2 = 0

\* the value of a raw field: the text between its quotes with every second
\* quote of the inside dropped, or the raw field when it has no quotes
Unquote(raw) ==
  IF raw # <<>> /\ raw[1] = "\""
  THEN LET inner == SubSeq(raw, 2, Len(raw) - 1)
           keep == {i \in 1..Len(inner) :
                      \/ inner[i] # "\""
                      \/ Cardinality({j \in 1..i : inner[j] = "\""}) % 2 = 1}
       IN  [k \in 1..Cardinality(keep) |-> inner[KthOf(keep, k)]]
  ELSE raw

\* the records of a CSV text
CsvRecords(text) ==
  LET lines == SplitAt(text, {i \in 1..Len(text) :
                                text[i] = "\n" /\ OutsideQuotes(text, i)})
  IN  [r \in 1..Len(lines) |->
         LET raws == SplitAt(lines[r],
                             {i \in 1..Len(lines[r]) :
                                lines[r][i] = "," /\ OutsideQuotes(lines[r], i)})
         IN  [f \in 1..Len(raws) |-> Unquote(raws[f])]]

\* the six values a detailed error puts in its row
FieldsOf(e) ==
  << <<e.type>>, <<e.category>>, LineText(e.line), e.element, <<e.description>>,
     additionalInfo(e) >>

HasSpecial(v) == \E i \in 1..Len(v) : v[i] \in {",", "\"", "\n"}

\* the export step is over and the run goes on
Exported == Validated /\ pc \in {"check", "write", "done"}

\* C11: the file written for a non-empty detailedErrors list reads back as
\* the header record Type,Category,Line,Element,Description,Additional Info
\* followed by exactly one record per detailed error, in the order of the
\* list, each of six fields; the text does not end with a newline; with an
\* empty list nothing is written, and with --export-errors and a non-empty
\* list the file is written.
C11_CsvShape ==
  /\ csvFile # <<>> =>
       LET errs == Result.detailedErrors
           recs == CsvRecords(csvFile[1])
       IN  /\ Parsed /\ EXPORT_ERRORS
           /\ Len(errs) > 0
           /\ Len(recs) = 1 + Len(errs)
           /\ recs[1] = << <<"Type">>, <<"Category">>, <<"Line">>, <<"Element">>,
                           <<"Description">>, <<"Additional Info">> >>
           /\ \A i \in 1..Len(errs) :
                /\ Len(recs[i + 1]) = 6
                /\ recs[i + 1][1] = <<errs[i].type>>
                /\ recs[i + 1][2] = <<errs[i].category>>
                /\ recs[i + 1][4] = errs[i].element
           /\ csvFile[1][Len(csvFile[1])] # "\n"
  /\ (Exported /\ Parsed) =>
       (csvFile # <<>> <=> (EXPORT_ERRORS /\ Len(Result.detailedErrors) > 0))

\* a written file with two rows of different categories, one of them with a
\* newline inside a quoted field
C11_Witness ==
  /\ csvFile # <<>>
  /\ Len(Result.detailedErrors) >= 2
  /\ Result.detailedErrors[1].category # Result.detailedErrors[2].category
  /\ \E i \in 1..Len(Result.detailedErrors) :
       \E j \in 1..Len(Result.detailedErrors[i].element) :
         Result.detailedErrors[i].element[j] = "\n"

\* the quotes of a text
QuotesIn(v) == {i \in 1..Len(v) : v[i] = "\""}

\* C12: in every written row, a field value that holds a comma, a double
\* quote or a newline is emitted between double quotes with each of its
\* quotes doubled, any other value is emitted verbatim, an absent value is
\* emitted as the empty text, and reading the row back (splitting on commas
\* outside quotes, un-doubling quotes) gives the six original values.
C12_EscapeRoundTrip ==
  /\ escapeCSV(undefined) = <<>>
  /\ csvFile # <<>> =>
       LET errs == Result.detailedErrors
           recs == CsvRecords(csvFile[1])
           rows == split(csvFile[1], "\n")
       IN  \A i \in 1..Len(errs) :
             LET vals == FieldsOf(errs[i])
             IN  /\ i + 1 <= Len(recs)
                 /\ recs[i + 1] = vals
                 /\ \A k \in 1..6 :
                      LET out == escapeCSV(vals[k])
                      IN  IF HasSpecial(vals[k])
                          THEN /\ Len(out) = Len(vals[k]) + 2
                                               + Cardinality(QuotesIn(vals[k]))
                               /\ out[1] = "\"" /\ out[Len(out)] = "\""
                               /\ CsvRecords(out) = << <<vals[k]>> >>
                          ELSE out = vals[k]

\* a written row with a value that holds a quote and a comma, one that
\* holds a newline, and one emitted verbatim
C12_Witness ==
  /\ csvFile # <<>>
  /\ \E i, j \in 1..Len(Result.detailedErrors) :
       LET a == Result.detailedErrors[i].element
           b == Result.detailedErrors[j].element
       IN  /\ \E k \in 1..Len(a) : a[k] = ","
           /\ \E k \in 1..Len(a) : a[k] = "\""
           /\ \E k \in 1..Len(b) : b[k] = "\n"
  /\ \E i \in 1..Len(Result.detailedErrors) :
       \E k \in 1..6 : ~HasSpecial(FieldsOf(Result.detailedErrors[i])[k])

HeadingLines(text) ==
  LET lines == split(text, "\n")
  IN  {i \in 1..Len(lines) :
         /\ Len(lines[i]) >= 2
         /\ lines[i][1] = "#"
         /\ lines[i][2] \in {" ", "\t"}}

\* the content after the marker of the first such line, trimmed
TitleOfFirstHeadingLine(text) ==
  LET lines == split(text, "\n")
      i == SetMin(HeadingLines(text))
  IN  trim(SubSeq(lines[i], 2, Len(lines[i])))

\* C14: the title is the trimmed content that follows the marker on the
\* first line of rawText that starts with a single "#" followed by
\* whitespace, content of that same line; without such a line it is
\* "Untitled Markdown Import".  Stated here in its weakest reading: a text
\* none of whose lines starts with "#" gets the fallback, and a title that
\* is not the fallback is the content of the first such line.
C14_TitleOfFirstHeadingLine ==
  pc \in {"write", "done"} =>
    /\ (\A i \in 1..Len(md) : md[i] # "#") => internalTitle = FallbackTitle
    /\ internalTitle # FallbackTitle =>
         /\ HeadingLines(md) # {}
         /\ internalTitle = TitleOfFirstHeadingLine(md)

\* C15: the document written has exactly the top-level arrays contentTypes,
\* entries, assets and locales; contentTypes, assets and locales are empty
\* and entries holds one entry of sys.type "Entry", with a content-type link
\* to "post", sys.publishedVersion 1, the derived title in
\* fields.internalTitle["en-US"] and the fetched text, unchanged, in
\* fields.markdown["en-US"].
C15_ImportDocument ==
  pc = "done" =>
    /\ Len(importJson) = 1
    /\ LET d == importJson[1]
       IN  /\ DOMAIN d = {"contentTypes", "entries", "assets", "locales"}
           /\ d.contentTypes = <<>> /\ d.assets = <<>> /\ d.locales = <<>>
           /\ Len(d.entries) = 1
           /\ DOMAIN d.entries[1] = {"sys", "fields"}
           /\ d.entries[1].sys.type = "Entry"
           /\ d.entries[1].sys.contentType
                = [sys |-> [type |-> "Link", linkType |-> "ContentType",
                            id |-> "post"]]
           /\ d.entries[1].sys.publishedVersion = 1
           /\ DOMAIN d.entries[1].fields = {"internalTitle", "markdown"}
           /\ d.entries[1].fields.internalTitle.en_US = internalTitle
           /\ d.entries[1].fields.internalTitle.en_US = deriveTitle(md)
           /\ d.entries[1].fields.markdown.en_US = md

\* a document written over an older one, for a text that begins and ends
\* with whitespace and has a heading line
C15_Witness ==
  /\ pc = "done"
  /\ Len(md) >= 3
  /\ IsWhitespace(md[1]) /\ IsWhitespace(md[Len(md)])
  /\ internalTitle # FallbackTitle
  /\ importJson # <<PriorImport>>

\* the import command was run
ImportRan == \E i \in 1..Len(commands) : commands[i].name = "contentful space import"

\* the value .env gives a variable is there and not empty
EnvHas(key) == envFile # <<>> /\ Truthy(envValue(envFile[1], key))

\* C16: the import command runs only after outputs/import.json was found,
\* .env was found, CONTENTFUL_SPACE_ID and CONTENTFUL_ENVIRONMENT_ID were
\* found non-empty and "contentful --version" succeeded, checked in this
\* order: a run whose first failing check is the k-th never gets past it,
\* runs nothing of what follows and exits with code 1; a failed import
\* command exits with code 1 too, and only a successful one ends with 0.
C16_ImportOrder ==
  /\ pc = "exit" => exitCode = 1
  /\ pc # "exit" => exitCode = 0
  /\ importJson = <<>> =>
       pc \in {"start", "exit"} /\ envVars = NoEnvVars /\ commands = <<>>
  /\ envFile = <<>> =>
       pc \in {"start", "env", "exit"} /\ envVars = NoEnvVars /\ commands = <<>>
  /\ ~EnvHas(SpaceIdKey) =>
       pc \in {"start", "env", "space", "exit"} /\ commands = <<>>
  /\ ~EnvHas(EnvironmentIdKey) =>
       pc \in {"start", "env", "space", "environment", "exit"} /\ commands = <<>>
  /\ commands # <<>> =>
       /\ commands[1].name = "contentful --version"
       /\ ~commands[1].ok => pc = "exit" /\ Len(commands) = 1
  /\ ImportRan =>
       /\ importJson # <<>> /\ envFile # <<>>
       /\ EnvHas(SpaceIdKey) /\ EnvHas(EnvironmentIdKey)
       /\ Len(commands) = 2
       /\ commands[1] = Command("contentful --version", <<>>, <<>>, TRUE)
       /\ commands[2].spaceId = envValue(envFile[1], SpaceIdKey)
       /\ commands[2].environmentId = envValue(envFile[1], EnvironmentIdKey)
       /\ pc = IF commands[2].ok THEN "done" ELSE "exit"
  /\ pc = "done" => ImportRan

\* a run that found the space id but an empty or missing environment id and
\* stopped there
C16_Witness ==
  /\ pc = "exit"
  /\ importJson # <<>>
  /\ EnvHas(SpaceIdKey) /\ ~EnvHas(EnvironmentIdKey)
  /\ commands = <<>>

\* the issues and detailed errors the heading and broken-image rules give
\* a document that holds headings and images only
ImageIssues ==
  (IF H1Idx = {} THEN 1 ELSE 0) + (IF BrokenImageIdx = {} THEN 0 ELSE 1)

\* C17: with M top-level images whose alt text is absent or blank, M >= 1
\* gives exactly one warning "M image(s) missing alt text" and exactly M
\* Warning "Missing Alt Text" entries, M = 0 gives none, and the rule leaves
\* issues and success alone; it runs whether or not the image is broken, so
\* an image with a blank href and a blank alt is counted by both rules and
\* gets a Critical "Broken Image" and a Warning "Missing Alt Text" entry.
C17_MissingAltIndependent ==
  LET M == Cardinality(NoAltIdx)
      es == EntriesOf("Missing Alt Text")
  IN  Parsed =>
        /\ \A k \in Counts :
             CountIn(Result.warnings, ToString(k) \o " image(s) missing alt text")
               = IF k = M /\ M >= 1 THEN 1 ELSE 0
        /\ Len(es) = M
        /\ \A i \in 1..Len(es) : es[i].type = "Warning"
        /\ Len(EntriesOf("Broken Image")) = Cardinality(BrokenImageIdx)
        /\ \A i \in 1..Len(EntriesOf("Broken Image")) :
             EntriesOf("Broken Image")[i].type = "Critical"
        /\ Len(Result.issues) = ImageIssues
        /\ Result.success <=> (H1Idx # {} /\ BrokenImageIdx = {})

\* an image with neither destination nor alt text beside an image whose alt
\* text is a space
C17_Witness ==
  /\ Parsed
  /\ \E i \in BrokenImageIdx : i \in NoAltIdx
  /\ \E i \in NoAltIdx : Tokens[i].text = <<" ">>

\* the link tokens with a blank href, in document order (a document of
\* LinkDocs has at most one link per block, under tokens)
RECURSIVE BrokenLinksIn(_)
BrokenLinksIn(toks) ==
  IF toks = <<>> THEN <<>>
  ELSE LET t == Head(toks)
       IN  (IF t.type = "link" /\ Blank(t.href) THEN <<t>>
            ELSE BrokenLinksIn(t.tokens))
           \o BrokenLinksIn(Tail(toks))

\* the positions at which a text occurs in rawText
Occurrences(s) == {i \in 1..Len(md) : OccursAt(md, s, i)}

\* the line of a position of rawText
LineAt(i) == [known |-> TRUE, n |-> 1 + NewlinesBefore(md, i - 1)]

\* C18: the entry of a broken link with label T (the text "(no text)" when
\* the link has no label) carries the line of the first occurrence of
\* "[T]()" in rawText; only when "[T]()" does not occur, the line of the
\* first occurrence of "[T]( )"; and "Unknown" when neither occurs.  So when
\* both occur, an earlier "[T]( )" does not matter.
C18_LinkLineFallback ==
  LET es == EntriesOf("Broken Link")
      links == BrokenLinksIn(Tokens)
  IN  Parsed =>
        /\ Len(es) = Len(links)
        /\ \A i \in 1..Len(es) :
             LET T == IF links[i].text = <<>>
                      THEN <<"(", "n", "o", " ", "t", "e", "x", "t", ")">>
                      ELSE links[i].text
                 plain == Occurrences(<<"[">> \o T \o <<"]", "(", ")">>)
                 spaced == Occurrences(<<"[">> \o T \o <<"]", "(", " ", ")">>)
             IN  /\ es[i].linkText = T
                 /\ es[i].line =
                      IF plain # {} THEN LineAt(SetMin(plain))
                      ELSE IF spaced # {} THEN LineAt(SetMin(spaced))
                      ELSE Unknown

\* a text in which "[A]( )" occurs on a line before "[A]()"
C18_Witness ==
  /\ Parsed
  /\ Len(EntriesOf("Broken Link")) = 2
  /\ \E i \in Occurrences(<<"[", "A", "]", "(", ")">>) :
       \E j \in Occurrences(<<"[", "A", "]", "(", " ", ")">>) :
         /\ j < i
         /\ EntriesOf("Broken Link")[1].line = LineAt(i)
         /\ LineAt(j) # LineAt(i)

\* positions of the top-level images whose href begins with http:// or https://
ExternalIdx ==
  {i \in ImageIdx :
     /\ Tokens[i].href # undefined
     /\ \/ OccursAt(Tokens[i].href, <<"h", "t", "t", "p", ":", "/", "/">>, 1)
        \/ OccursAt(Tokens[i].href, <<"h", "t", "t", "p", "s", ":", "/", "/">>, 1)}

\* C19: with E top-level images whose href starts with "http://" or
\* "https://", the warning "E external image(s) - consider hosting in
\* Contentful" is there exactly once when E >= 1 and not at all when E = 0;
\* the check adds no issue and no detailed error and leaves success alone:
\* issues, detailed errors and success are those of the other rules.
C19_ExternalImages ==
  LET E == Cardinality(ExternalIdx)
      N == Cardinality(H1Idx)
  IN  Parsed =>
        /\ \A k \in Counts :
             CountIn(Result.warnings,
                     ToString(k) \o " external image(s) - consider hosting in Contentful")
               = IF k = E /\ E >= 1 THEN 1 ELSE 0
        /\ Len(Result.issues) = ImageIssues
        /\ Len(Result.detailedErrors)
             = (IF N > 1 THEN N ELSE 0) + Cardinality(BrokenImageIdx)
               + Cardinality(NoAltIdx)
        /\ \A i \in 1..Len(Result.detailedErrors) :
             Result.detailedErrors[i].category
               \in {"Multiple H1", "Broken Image", "Missing Alt Text"}
        /\ Result.success <=> (H1Idx # {} /\ BrokenImageIdx = {})

\* an https image beside an image whose href holds http:// further in
C19_Witness ==
  /\ Parsed
  /\ \E i \in ExternalIdx :
       OccursAt(Tokens[i].href, <<"h", "t", "t", "p", "s">>, 1)
  /\ \E i \in ImageIdx \ ExternalIdx :
       OccursAt(Tokens[i].href, <<"h", "t", "t", "p", ":", "/", "/">>, 2)

\* the positions just before each line of rawText: 0 and those of the newlines
LineStarts == {0} \cup {i \in 1..Len(md) : md[i] = "\n"}

\* the length of the line that begins after position i
LineLength(i) ==
  SetMin({j \in (i + 1)..(Len(md) + 1) : j = Len(md) + 1 \/ md[j] = "\n"}) - i - 1

\* C20: with K the number of lines of rawText longer than 120 characters,
\* the warning "K lines exceed 120 characters" is there, once, exactly when
\* K > 10: ten such lines give no warning and a line of exactly 120
\* characters is not counted; the rule adds no issue and no detailed error.
C20_LongLines ==
  LET K == Cardinality({i \in LineStarts : LineLength(i) > 120})
  IN  Parsed =>
        /\ \A k \in 0..(MaxLongLines + 2) :
             CountIn(Result.warnings, ToString(k) \o " lines exceed 120 characters")
               = IF k = K /\ K > 10 THEN 1 ELSE 0
        /\ Len(Result.warnings) = IF K > 10 THEN 1 ELSE 0
        /\ Len(Result.issues) = IF H1Idx = {} THEN 1 ELSE 0
        /\ Result.detailedErrors = <<>>
        /\ Result.success <=> H1Idx # {}

\* ten lines of 121 characters and one of 120: no warning
C20_Witness ==
  /\ Parsed
  /\ Cardinality({i \in LineStarts : LineLength(i) > 120}) = 10
  /\ \E i \in LineStarts : LineLength(i) = 120
  /\ Result.warnings = <<>>

\* the top-level tokens at the positions S, in the order of the tree
InOrder(S) == [k \in 1..Cardinality(S) |-> Tokens[KthOf(S, k)]]

\* the category of a detailed error and the text that tells its token
EntryKey(e) ==
  << e.category,
     CASE e.category = "Multiple H1" -> e.heading
       [] e.category = "Broken Image" -> e.altText
       [] e.category = "Missing Alt Text" -> e.href
       [] e.category = "Broken Link" -> e.linkText >>

\* C21: detailedErrors holds the "Multiple H1" entries, then the "Broken
\* Image" entries, then the "Missing Alt Text" entries, then the "Broken
\* Link" entries, each group in the order of its tokens in the tree; issues
\* holds the no-H1 issue, then the broken-image issue, then the broken-link
\* issue; warnings holds the multiple-H1 warning, then the missing-alt
\* warning, then the external-image warning, then the long-line warning.
C21_RuleOrder ==
  Parsed =>
    LET h1s == InOrder(H1Idx)
        broken == InOrder(BrokenImageIdx)
        noAlt == InOrder(NoAltIdx)
        links == BrokenLinksIn(Tokens)
        external == Cardinality(ExternalIdx)
        long == Cardinality({i \in LineStarts : LineLength(i) > 120})
    IN  /\ [i \in 1..Len(Result.detailedErrors) |->
              EntryKey(Result.detailedErrors[i])]
             = (IF Len(h1s) > 1
                THEN [k \in 1..Len(h1s) |-> <<"Multiple H1", h1s[k].text>>]
                ELSE <<>>)
               \o [k \in 1..Len(broken) |->
                     <<"Broken Image",
                       IF broken[k].text = <<>> THEN NoAltText ELSE broken[k].text>>]
               \o [k \in 1..Len(noAlt) |->
                     <<"Missing Alt Text",
                       IF noAlt[k].href = <<>> THEN NoUrl ELSE noAlt[k].href>>]
               \o [k \in 1..Len(links) |->
                     <<"Broken Link",
                       IF links[k].text = <<>> THEN NoText ELSE links[k].text>>]
        /\ Result.issues
             = (IF h1s = <<>> THEN <<"No H1 heading found">> ELSE <<>>)
               \o (IF broken # <<>>
                   THEN <<ToString(Len(broken)) \o " image(s) with missing URLs">>
                   ELSE <<>>)
               \o (IF links # <<>>
                   THEN <<ToString(Len(links)) \o " link(s) with missing URLs">>
                   ELSE <<>>)
        /\ Result.warnings
             = (IF Len(h1s) > 1
                THEN <<"Multiple H1 headings found (" \o ToString(Len(h1s)) \o ")">>
                ELSE <<>>)
               \o (IF noAlt # <<>>
                   THEN <<ToString(Len(noAlt)) \o " image(s) missing alt text">>
                   ELSE <<>>)
               \o (IF external > 0
                   THEN <<ToString(external)
                            \o " external image(s) - consider hosting in Contentful">>
                   ELSE <<>>)
               \o (IF long > 10
                   THEN <<ToString(long) \o " lines exceed 120 characters">>
                   ELSE <<>>)

\* two depth-1 headings, an image with neither URL nor alt text and a broken
\* link, above a paragraph of more than ten long lines: all four categories,
\* two issues and three warnings
C21_Witness ==
  /\ Parsed
  /\ Cardinality(H1Idx) = 2
  /\ \A cat \in {"Multiple H1", "Broken Image", "Missing Alt Text", "Broken Link"} :
       EntriesOf(cat) # <<>>
  /\ Len(Result.issues) = 2
  /\ Len(Result.warnings) = 3

\* C22: the element of every detailed error is the snippet the line lookup
\* searched for: whenever the line of an entry is a number, the element
\* text occurs in rawText starting on that line.  This includes images with
\* empty alt text and links found through the "( )" fallback.
C22_ElementOnItsLine ==
  Parsed =>
    \A i \in 1..Len(Result.detailedErrors) :
      LET e == Result.detailedErrors[i]
      IN  e.line.known =>
            \E p \in Occurrences(e.element) : LineAt(p) = e.line

\* the findings of the image rules are those of the top-level images alone
TopLevelImagesOnly ==
  /\ Len(EntriesOf("Broken Image")) = Cardinality(BrokenImageIdx)
  /\ Len(EntriesOf("Missing Alt Text")) = Cardinality(NoAltIdx)
  /\ \A k \in Counts :
       /\ CountIn(Result.issues, ToString(k) \o " image(s) with missing URLs")
            = IF k >= 1 /\ k = Cardinality(BrokenImageIdx) THEN 1 ELSE 0
       /\ CountIn(Result.warnings, ToString(k) \o " image(s) missing alt text")
            = IF k >= 1 /\ k = Cardinality(NoAltIdx) THEN 1 ELSE 0
       /\ CountIn(Result.warnings,
                  ToString(k) \o " external image(s) - consider hosting in Contentful")
            = IF k >= 1 /\ k = Cardinality(ExternalIdx) THEN 1 ELSE 0
  /\ ImageIdx = {} =>
       /\ \A i \in 1..Len(Result.issues) :
            \/ Result.issues[i] = "No H1 heading found"
            \/ \E k \in Counts :
                 Result.issues[i] = ToString(k) \o " link(s) with missing URLs"
       /\ \A i \in 1..Len(Result.warnings) :
            \E k \in Counts :
              Result.warnings[i] = "Multiple H1 headings found (" \o ToString(k) \o ")"
       /\ Result.success <=> (H1Idx # {} /\ EntriesOf("Broken Link") = <<>>)

\* C23: images are collected from the top level of the token tree only,
\* while links are collected from the whole tree: a broken, alt-less or
\* external image nested inside a container (paragraph, blockquote, list
\* item) gives no issue, no warning and no detailed error and cannot make
\* success false, and every broken link of the tree has its entry.
C23_ImagesTopLevelLinksWholeTree ==
  Parsed =>
    /\ TopLevelImagesOnly
    /\ Len(EntriesOf("Broken Link")) = TreeBrokenLinks(Tokens)

\* the half of C23 about images
C23_ImagesPart == Parsed => TopLevelImagesOnly

\* validation produced at least one detailed error
HasDetails ==
  /\ Validated
  /\ "detailedErrors" \in DOMAIN Result
  /\ Len(Result.detailedErrors) > 0

\* C24: when the export is requested and validation produced at least one
\* detailed error, the CSV file is written before the success check: from
\* the check on the file is there, also in a run that fails and exits with
\* code 1; the file is written only by the step between validation and the
\* check, never before validation has finished; and the failing check
\* leaves the file as it is.
C24_ExportBeforeCheck ==
  /\ []((EXPORT_ERRORS /\ HasDetails /\ pc \in {"check", "write", "done", "exit"})
          => /\ csvFile = <<csvContent(Result.detailedErrors)>>
             /\ (~Result.success /\ pc = "exit") => exitCode = 1)
  /\ [][csvFile' # csvFile
          => /\ pc = "export" /\ pc' = "check"
             /\ validationResult # <<>> /\ validationResult' = validationResult]_vars
  /\ [][(pc = "check" /\ ~validationResult[1].success)
          => pc' = "exit" /\ exitCode' = 1 /\ csvFile' = csvFile]_vars

\* a failing run with --export-errors has exited with code 1 and the CSV
\* file is written
C24_Witness ==
  /\ pc = "exit"
  /\ exitCode = 1
  /\ EXPORT_ERRORS
  /\ HasDetails
  /\ ~Result.success
  /\ csvFile # <<>>

\* the fetch of the run was answered with a status outside the 2xx range
FetchFailed == response # <<>> /\ ~response[1].ok

\* C25: when the fetch returns a non-ok response, the run ends with exit
\* code 1 and an error whose message carries the HTTP status and the status
\* text; no text is read, no title is extracted, nothing is validated, and
\* neither the CSV file nor import.json is written.
C25_FetchFailure ==
  FetchFailed =>
    /\ pc = "exit"
    /\ exitCode = 1
    /\ \E i, j \in 1..Len(errorMessage) :
         /\ i < j
         /\ errorMessage[i] = ToString(response[1].status)
         /\ errorMessage[j] = response[1].statusText
    /\ md = <<>>
    /\ internalTitle = <<>>
    /\ validationResult = <<>>
    /\ csvFile = <<>>
    /\ importJson \in {<<>>, <<PriorImport>>}

\* the server answered 404 Not Found: the run has exited with code 1 and the
\* import.json of an earlier run is still there
C25_Witness ==
  /\ FetchFailed
  /\ response[1].status = 404
  /\ pc = "exit"
  /\ exitCode = 1
  /\ importJson = <<PriorImport>>

\* C26: the validator of validate.js and the validator of
\* generate-import-file.js return the same result for every input, a parse
\* failure included: the same fields, with equal success, issues, warnings,
\* tokens and detailedErrors, so that result.detailedErrors.length reads the
\* same after either.
C26_ValidatorsAgree ==
  Validated =>
    LET other == validateMarkdown(md, internalTitle, lexerResult)
    IN  /\ DOMAIN other = DOMAIN Result
        /\ \A f \in DOMAIN Result \cap DOMAIN other : other[f] = Result[f]

\* the two validators agree whenever the lexer does not throw
C26_AgreeWhenParsed ==
  Parsed => validateMarkdown(md, internalTitle, lexerResult) = Result

\* C27: whenever validation reports "No H1 heading found", the title
\* derived from the same rawText is the fallback "Untitled Markdown Import";
\* and whenever the title extractor found a heading line (the title is not
\* the fallback), the validator counted at least one depth-1 heading.
C27_TitleAgreesWithH1Count ==
  Parsed =>
    /\ CountIn(Result.issues, "No H1 heading found") > 0
         => internalTitle = FallbackTitle
    /\ internalTitle # FallbackTitle => H1Idx # {}

\* the export step of a validate.js run is behind
ExportStepDone == Validated /\ pc \in {"check", "done", "exit"}

\* C28: in main() of validate.js the question about the CSV export is asked
\* only when --export-errors was not given; when it was given, the errors
\* are exported without that question and whatever is typed, with or
\* without --url.
C28_ExportFlagDecides ==
  /\ (\E i \in 1..Len(prompts) : prompts[i] = ExportQuestion) => ~EXPORT_ERRORS
  /\ (EXPORT_ERRORS /\ ExportStepDone /\ HasDetails)
       => csvFile = <<csvContent(Result.detailedErrors)>>

\* C29: the title extractor never returns an empty or whitespace-only text:
\* the title of every rawText is a non-empty trimmed heading text or the
\* fallback "Untitled Markdown Import".
C29_TitleNeverBlank ==
  pc \in {"write", "done"} =>
    /\ ~Blank(internalTitle)
    /\ internalTitle = trim(internalTitle)

====
